---- MODULE Spec2Model ----
(***************************************************************************)
(* Model of the interactive command selector of rust-cuts                  *)
(* (crates/cli/src/command_selection/ui.rs and types.rs).                  *)
(*                                                                         *)
(* Strings are sequences of one-character strings.  Option<T> is a         *)
(* sequence of length 0 (None) or 1 (Some).  A state of the model is the   *)
(* state of prompt_for_command_choice at its suspension point, the event   *)
(* poll at the bottom of the loop; one action is one loop iteration: the   *)
(* event handler, the index change that follows it, and the redraw at the  *)
(* top of the next iteration when should_reprint was set.                  *)
(***************************************************************************)
EXTENDS Integers, Sequences, FiniteSets, TLC

\* ------------------------------------------------------------------ bounds

\* Largest number of command definitions loaded.
MaxCommands == 2
\* Longest filter text typed.
MaxFilterLen == 2
\* Longest filter text given to filter_displayed_indexes on its own.
MaxTextLen == 2
\* Largest terminal row count (the viewport height is the row count - 2).
MaxRows == 4
\* Column counts of the terminal: too narrow for the browsing header, and wide.
NarrowCols == 30
WideCols == 80

\* ------------------------------------------------------- program constants

\* LAST_COMMAND_OPTION
LAST_COMMAND_OPTION == "r"
\* print_header: left_padding_size
LeftPaddingSize == 2
\* print_header: length of "<esc>: Stop Filtering"
FilteringHeaderLen == 21
\* print_header: length of "/: Begin Filtering   |   " + "/" + "   |   q: Quit"
BrowsingHeaderFixedLen == 40
\* u16 arithmetic wraps modulo 2^16 in a build without overflow checks
U16Modulus == 65536

\* ----------------------------------------------------------------- inputs

\* Display label (CommandForDisplay::to_string) of the i-th command loaded.
CommandLabel(i) == IF i % 2 = 1 THEN <<"a", "r">> ELSE <<"q", "r">>

\* Display label of the last command, when there is one.
LastLabel == <<"r", "q">>

\* Characters typed without and with the Control modifier.
PlainChars == { "/", "q", "r", "1" }
CtrlChars == { "c", "q" }

KeyCode(k) == [code |-> k, ch |-> ""]
KeyChar(c) == [code |-> "Char", ch |-> c]

\* Key events: [key, ctrl]
KeyEvents ==
    { [key |-> KeyCode(k), ctrl |-> FALSE] :
          k \in {"Up", "Down", "Enter", "Backspace", "Esc", "Tab"} }
    \cup { [key |-> KeyChar(c), ctrl |-> FALSE] : c \in PlainChars }
    \cup { [key |-> KeyChar(c), ctrl |-> TRUE] : c \in CtrlChars }

\* Mouse events: [kind, row, modifiers].  Only a left press keeps its row.
MouseEvents ==
    { [kind |-> "DownLeft", row |-> r, modifiers |-> FALSE] : r \in 0 .. (MaxRows - 1) }
    \cup { [kind |-> k, row |-> 0, modifiers |-> FALSE] :
               k \in {"UpLeft", "DownRight", "ScrollDown", "ScrollUp", "Moved"} }
    \cup { [kind |-> k, row |-> 1, modifiers |-> TRUE] :
               k \in {"DownLeft", "UpLeft", "ScrollDown"} }

TermCols == { NarrowCols, WideCols }
TermRows == 2 .. MaxRows

\* ---------------------------------------------------------------- strings

Digits == <<"0", "1", "2", "3", "4", "5", "6", "7", "8", "9">>

DigitValue(c) == (CHOOSE d \in 1 .. 10 : Digits[d] = c) - 1

IsDigit(c) == \E d \in 1 .. 10 : Digits[d] = c

RECURSIVE UsizeToString(_)
\* usize::to_string: decimal, no sign, no leading zeros.
UsizeToString(n) ==
    IF n < 10 THEN << Digits[n + 1] >>
    ELSE UsizeToString(n \div 10) \o << Digits[(n % 10) + 1] >>

RECURSIVE DigitsValue(_)
DigitsValue(s) ==
    IF s = <<>> THEN 0
    ELSE 10 * DigitsValue(SubSeq(s, 1, Len(s) - 1)) + DigitValue(s[Len(s)])

\* str::parse::<usize>: an optional leading "+", then one or more decimal
\* digits; anything else is an error.  Some(n) is <<n>>, an error is <<>>.
ParseUsize(s) ==
    LET body == IF s # <<>> /\ s[1] = "+" THEN Tail(s) ELSE s
    IN  IF body # <<>> /\ \A k \in 1 .. Len(body) : IsDigit(body[k])
        THEN << DigitsValue(body) >>
        ELSE <<>>

\* str::contains
Contains(hay, needle) ==
    \E k \in 0 .. (Len(hay) - Len(needle)) :
        SubSeq(hay, k + 1, k + Len(needle)) = needle

RECURSIVE FuzzyMatch(_, _)
\* SkimMatcherV2::fuzzy_match(choice, pattern).is_some(): the characters of
\* the pattern occur in the choice in order (an empty pattern matches).
FuzzyMatch(choice, pattern) ==
    IF pattern = <<>> THEN TRUE
    ELSE IF choice = <<>> THEN FALSE
    ELSE IF choice[1] = pattern[1] THEN FuzzyMatch(Tail(choice), Tail(pattern))
    ELSE FuzzyMatch(Tail(choice), pattern)

DecimalWidth(n) == Len(UsizeToString(n))

Max(a, b) == IF a >= b THEN a ELSE b

\* usize::saturating_sub
SaturatingSub(a, b) == IF a >= b THEN a - b ELSE 0

\* ------------------------------------------------------------------ types

\* CommandIndex
Normal(i) == [t |-> "Normal", i |-> i]
Rerun == [t |-> "Rerun", i |-> 0]

\* Mutant: the number shown is the 0-based index.
CommandIndexToString_ZeroBased(ci) ==
    IF ci.t = "Normal" THEN UsizeToString(ci.i) ELSE << "r" >>

\* CommandIndex as Display: 1-based number, "r" for the rerun entry.
CommandIndexToString(ci) ==
    IF ci.t = "Normal" THEN UsizeToString(ci.i + 1) ELSE << "r" >>

\* Mutant: the rerun entry sorts before the normal entries.
compare_RerunFirst(k1, k2) ==
    IF k1.t = "Normal" /\ k2.t = "Normal"
    THEN (IF k1.i < k2.i THEN "Less" ELSE IF k1.i = k2.i THEN "Equal" ELSE "Greater")
    ELSE IF k2.t = "Normal" THEN "Less"
    ELSE IF k1.t = "Normal" THEN "Greater"
    ELSE "Equal"

\* CommandIndex::compare
compare(k1, k2) ==
    IF k1.t = "Normal" /\ k2.t = "Normal"
    THEN (IF k1.i < k2.i THEN "Less" ELSE IF k1.i = k2.i THEN "Equal" ELSE "Greater")
    ELSE IF k2.t = "Normal" THEN "Greater"
    ELSE IF k1.t = "Normal" THEN "Less"
    ELSE "Equal"

\* CommandChoice
NoChoice == [kind |-> "None", i |-> 0, cmd |-> <<>>]
ChoiceIndex(i) == [kind |-> "Index", i |-> i, cmd |-> <<>>]
ChoiceRerun(lc) == [kind |-> "Rerun", i |-> 0, cmd |-> lc]
ChoiceQuit == [kind |-> "Quit", i |-> 0, cmd |-> <<>>]

\* ------------------------------------------------------------------ state

VARIABLES
    pc,                  \* "init", "polling", "returned", "error", "panicked"
    result,              \* the CommandChoice returned, NoChoice otherwise
    raw_mode,            \* terminal raw mode is enabled
    mouse_capture,       \* terminal mouse capture is enabled
    guard,               \* RawModeGuard: "none", "live", "dropped"
    overflow_checks,     \* the build panics on integer overflow (debug profile)
    command_definitions, \* labels of the command definitions, in file order
    last_command,        \* Option: label of the last execution template
    selected_index,
    typed_index,
    filter_text,
    is_filtering,        \* display_mode.is_filtering
    indexes_to_display,
    down_row,            \* Option<u16>
    viewport,            \* ViewportState
    \* main.rs, one `exec` invocation (pc is then the position in it)
    args,                \* ExecArgs
    parsed_command_defs, \* the command definitions read from the config file
    stored_last_command, \* Option: the execution template read from the last-command file
    selected_option,     \* the CommandChoice of determine_command_choice
    execution_context,   \* CommandExecutionTemplate
    parameter_definitions, \* Option<HashMap<String, ParameterDefinition>>
    is_rerun,
    filled_parameters,   \* Option<HashMap<String, ParameterDefinition>>
    need_to_prompt,
    pending,             \* fill_parameter_values: the tokens still to prompt for
    context,             \* fill_parameter_values: the map built so far
    rounds,              \* how often ChangeParams was answered
    interpolated_command, \* the rendered command of the current round
    effects,             \* what the invocation did to the outside, in order
    exit_code,           \* "none" while running, then "SUCCESS" or "FAILURE"
    error,               \* the Error that main reports, "none" otherwise
    error_detail,        \* what that Error carries, where the model follows it
    \* gui/src/app/state.rs, the GUI application (pc is then "update")
    rust_cuts,           \* RustCuts, the state that update changes
    tasks,               \* the futures of Task::perform that have not delivered their message
    started              \* how many futures Task::perform was given

invocation == << args, parsed_command_defs, stored_last_command, selected_option,
                 execution_context, parameter_definitions, is_rerun,
                 filled_parameters, need_to_prompt, pending, context, rounds,
                 interpolated_command, effects, exit_code, error, error_detail >>

gui == << rust_cuts, tasks, started >>

vars == << pc, result, raw_mode, mouse_capture, guard, overflow_checks,
           command_definitions, last_command, selected_index, typed_index,
           filter_text, is_filtering, indexes_to_display, down_row, viewport,
           invocation, gui >>

\* What a run of the selector leaves alone: its arguments, the invocation
\* around it and the GUI application.
inputs == << overflow_checks, command_definitions, last_command, invocation, gui >>

\* Keys of the command_display map built at entry: one Normal(i) per command
\* definition, and Rerun when there is a last command.
CommandDisplayKeys(defs, lc) ==
    { Normal(i - 1) : i \in 1 .. Len(defs) } \cup (IF lc # <<>> THEN { Rerun } ELSE {})

\* command_display[key].to_string()
CommandDisplayLabel(defs, lc, key) ==
    IF key.t = "Normal" THEN defs[key.i + 1] ELSE lc[1]

\* ------------------------------------------------------------- filtering

\* Vec::sort_by's insertion of one element: after every element that does not
\* compare Greater than it (the sort is stable).
SortInsert(sorted, x) ==
    LET before == SelectSeq(sorted, LAMBDA e : compare(e, x) # "Greater")
        after == SelectSeq(sorted, LAMBDA e : compare(e, x) = "Greater")
    IN  before \o << x >> \o after

RECURSIVE SortBy(_)
\* filtered.sort_by(|k1, k2| k1.compare(k2)) over the entries collected from
\* the HashMap in its (unspecified) iteration order.
SortBy(keys) ==
    IF keys = {} THEN <<>>
    ELSE LET x == CHOOSE k \in keys : TRUE
         IN  SortInsert(SortBy(keys \ { x }), x)

\* Mutant: an integer filter also keeps the entries whose label matches.
FilterKeeps_IndexOrLabel(defs, lc, key, predicate) ==
    LET predicate_index == ParseUsize(predicate)
    IN  \/ /\ predicate_index # <<>>
           /\ Contains(CommandIndexToString(key), UsizeToString(predicate_index[1]))
        \/ FuzzyMatch(CommandDisplayLabel(defs, lc, key), predicate)

\* The filter_map closure of filter_displayed_indexes: does the entry stay?
FilterKeeps(defs, lc, key, predicate) ==
    LET predicate_index == ParseUsize(predicate)
    IN  IF predicate_index # <<>>
        THEN Contains(CommandIndexToString(key), UsizeToString(predicate_index[1]))
        ELSE FuzzyMatch(CommandDisplayLabel(defs, lc, key), predicate)

filter_displayed_indexes(defs, lc, predicate) ==
    SortBy({ key \in CommandDisplayKeys(defs, lc) : FilterKeeps(defs, lc, key, predicate) })

\* ---------------------------------------------------------- viewport math

\* `height as usize - 1`: panics with overflow checks when height is 0, wraps
\* to usize::MAX otherwise; the result is only used as the subtrahend of a
\* saturating_sub, which then yields 0.
SatSubHeightMinusOne(index, height) ==
    IF height = 0 THEN 0 ELSE SaturatingSub(index, height - 1)

\* move_selected_index: [index, viewport, changed, panic]
move_selected_index(current_index, vp, len, direction, checks) ==
    IF len = 0
    THEN [index |-> 0, viewport |-> vp, changed |-> FALSE, panic |-> FALSE]
    ELSE IF direction = << "Up" >>
    THEN IF current_index = 0
         THEN [index |-> len - 1,
               viewport |-> [vp EXCEPT !.offset = SatSubHeightMinusOne(len - 1, vp.height)],
               changed |-> TRUE,
               panic |-> (vp.height = 0 /\ checks)]
         ELSE IF current_index - 1 < vp.offset
              THEN [index |-> current_index - 1,
                    viewport |-> [vp EXCEPT !.offset = current_index - 1],
                    changed |-> TRUE, panic |-> FALSE]
              ELSE [index |-> current_index - 1, viewport |-> vp,
                    changed |-> FALSE, panic |-> FALSE]
    ELSE IF direction = << "Down" >>
    THEN LET new_index == (current_index + 1) % len
         IN  IF new_index < current_index
             THEN [index |-> new_index, viewport |-> [vp EXCEPT !.offset = 0],
                   changed |-> TRUE, panic |-> FALSE]
             ELSE IF new_index >= vp.offset + vp.height
             THEN [index |-> new_index,
                   viewport |-> [vp EXCEPT !.offset = new_index - vp.height + 1],
                   changed |-> TRUE, panic |-> FALSE]
             ELSE [index |-> new_index, viewport |-> vp,
                   changed |-> FALSE, panic |-> FALSE]
    ELSE [index |-> current_index, viewport |-> vp, changed |-> FALSE, panic |-> FALSE]

\* print_header panics when the terminal is narrower than the header text:
\* `width as usize - left_padding_size - instructions.len()` underflows (with
\* overflow checks) or wraps to a count that str::repeat rejects (without).
HeaderLen(filtering, index, count) ==
    IF filtering THEN FilteringHeaderLen
    ELSE BrowsingHeaderFixedLen
         + Max(DecimalWidth(index + 1), DecimalWidth(count)) + DecimalWidth(count)

print_header_panics(filtering, index, count, width) ==
    width < LeftPaddingSize + HeaderLen(filtering, index, count)

\* `(index - viewport.offset) as u16 + 1` without overflow checks
RowOf(index, offset) == (((index - offset) % U16Modulus) + 1) % U16Modulus

\* ------------------------------------------------------ the loop's locals

\* The locals of prompt_for_command_choice as one record.  status is "ok"
\* while the iteration goes on, "return" after a `return Ok(choice)` and
\* "panic" after a panic; ret is the choice returned.
Locals ==
    [ selected_index |-> selected_index, typed_index |-> typed_index,
      filter_text |-> filter_text, is_filtering |-> is_filtering,
      indexes_to_display |-> indexes_to_display, down_row |-> down_row,
      viewport |-> viewport, should_reprint |-> FALSE,
      index_change_direction |-> <<>>, status |-> "ok", ret |-> NoChoice ]

\* The choice the Enter arm of handle_key_event computes for a list position.
EnterChoice(list, index, lc) ==
    IF index + 1 <= Len(list)
    THEN IF list[index + 1].t = "Normal" THEN ChoiceIndex(list[index + 1].i)
         ELSE IF lc # <<>> THEN ChoiceRerun(lc[1]) ELSE NoChoice
    ELSE NoChoice

\* Mutant: Esc leaves the filter text as it is.
handle_key_event_EscKeepsText(key, ctrl, L, lc) ==
    LET same == [ direction |-> <<>>, is_filtering |-> L.is_filtering,
                  filter_text |-> L.filter_text, should_reprint |-> L.should_reprint,
                  ret |-> NoChoice ]
    IN  IF key.code \in {"Up", "Down"}
        THEN [same EXCEPT !.direction = << key.code >>]
        ELSE IF key.code = "Enter"
        THEN [same EXCEPT !.ret = EnterChoice(L.indexes_to_display, L.selected_index, lc)]
        ELSE IF key.code = "Backspace"
        THEN IF L.filter_text # <<>>
             THEN [same EXCEPT !.filter_text = SubSeq(L.filter_text, 1, Len(L.filter_text) - 1),
                               !.should_reprint = TRUE]
             ELSE same
        ELSE IF key.code = "Char" /\ key.ch = "c" /\ ctrl
        THEN [same EXCEPT !.ret = ChoiceQuit]
        ELSE IF key.code = "Char" /\ L.is_filtering
        THEN [same EXCEPT !.filter_text = Append(L.filter_text, key.ch),
                          !.should_reprint = TRUE]
        ELSE IF key.code = "Esc" /\ L.is_filtering
        THEN [same EXCEPT !.is_filtering = FALSE, !.should_reprint = TRUE]
        ELSE IF key.code = "Char" /\ key.ch = "/"
        THEN [same EXCEPT !.is_filtering = TRUE, !.should_reprint = TRUE]
        ELSE IF key.code = "Char" /\ key.ch = "q"
        THEN [same EXCEPT !.ret = ChoiceQuit]
        ELSE IF key.code = "Char" /\ key.ch = LAST_COMMAND_OPTION
        THEN IF lc # <<>> THEN [same EXCEPT !.ret = ChoiceRerun(lc[1])] ELSE same
        ELSE same

\* handle_key_event: [direction, is_filtering, filter_text, should_reprint, ret]
\* ret is the Option<CommandChoice> the function returns (NoChoice for None).
handle_key_event(key, ctrl, L, lc) ==
    LET same == [ direction |-> <<>>, is_filtering |-> L.is_filtering,
                  filter_text |-> L.filter_text, should_reprint |-> L.should_reprint,
                  ret |-> NoChoice ]
    IN  IF key.code \in {"Up", "Down"}
        THEN [same EXCEPT !.direction = << key.code >>]
        ELSE IF key.code = "Enter"
        THEN [same EXCEPT !.ret = EnterChoice(L.indexes_to_display, L.selected_index, lc)]
        ELSE IF key.code = "Backspace"
        THEN IF L.filter_text # <<>>
             THEN [same EXCEPT !.filter_text = SubSeq(L.filter_text, 1, Len(L.filter_text) - 1),
                               !.should_reprint = TRUE]
             ELSE same
        ELSE IF key.code = "Char" /\ key.ch = "c" /\ ctrl
        THEN [same EXCEPT !.ret = ChoiceQuit]
        ELSE IF key.code = "Char" /\ L.is_filtering
        THEN [same EXCEPT !.filter_text = Append(L.filter_text, key.ch),
                          !.should_reprint = TRUE]
        ELSE IF key.code = "Esc" /\ L.is_filtering
        THEN [same EXCEPT !.is_filtering = FALSE, !.should_reprint = TRUE,
                          !.filter_text = <<>>]
        ELSE IF key.code = "Char" /\ key.ch = "/"
        THEN [same EXCEPT !.is_filtering = TRUE, !.should_reprint = TRUE]
        ELSE IF key.code = "Char" /\ key.ch = "q"
        THEN [same EXCEPT !.ret = ChoiceQuit]
        ELSE IF key.code = "Char" /\ key.ch = LAST_COMMAND_OPTION
        THEN IF lc # <<>> THEN [same EXCEPT !.ret = ChoiceRerun(lc[1])] ELSE same
        ELSE same

\* The Event::Key arm of the loop: `handle_key_event(...)?;`.  The returned
\* Option<CommandChoice> is dropped by the statement; only the values written
\* through the &mut parameters reach the loop.
KeyArm(key, ctrl, L, lc) ==
    LET h == handle_key_event(key, ctrl, L, lc)
    IN  [L EXCEPT !.index_change_direction = h.direction,
                  !.is_filtering = h.is_filtering,
                  !.filter_text = h.filter_text,
                  !.should_reprint = h.should_reprint]

\* The Event::Mouse arm of the loop.
MouseArm(kind, row, modifiers, L, lc, checks) ==
    IF modifiers THEN L
    ELSE IF kind = "DownLeft" THEN [L EXCEPT !.down_row = << row >>]
    ELSE IF kind = "UpLeft"
    THEN IF L.down_row = <<>> THEN L
         ELSE IF L.down_row[1] = 0 /\ checks
         THEN [L EXCEPT !.status = "panic"]      \* down_row - 1 on a u16
         ELSE LET clicked_index == ((L.down_row[1] - 1) % U16Modulus) + L.viewport.offset
              IN  IF clicked_index < Len(L.indexes_to_display)
                  THEN IF L.selected_index >= Len(L.indexes_to_display)
                       THEN [L EXCEPT !.status = "panic"]  \* indexes_to_display[selected_index]
                       ELSE [L EXCEPT !.selected_index = clicked_index,
                                      !.status = "return",
                                      !.ret = EnterChoice(L.indexes_to_display, clicked_index, lc)]
                  ELSE [L EXCEPT !.down_row = <<>>]
    ELSE IF kind \in {"ScrollDown", "ScrollUp"}
    THEN [L EXCEPT !.index_change_direction =
                       IF kind = "ScrollDown" THEN << "Down" >> ELSE << "Up" >>]
    ELSE L

\* handle_resize
handle_resize(width, height, L, checks) ==
    LET vp == L.viewport
        new_height == SaturatingSub(height, 2)
        grow == new_height > vp.height /\ vp.offset > 0
        shrink == new_height < vp.height
                  /\ L.selected_index >= vp.offset + new_height
        shrunk_offset == SatSubHeightMinusOne(L.selected_index, new_height)
        new_offset ==
            IF grow THEN SaturatingSub(vp.offset, new_height - vp.height)
            ELSE IF shrink
            THEN IF shrunk_offset + new_height > Len(L.indexes_to_display)
                 THEN SaturatingSub(Len(L.indexes_to_display), new_height)
                 ELSE shrunk_offset
            ELSE vp.offset
    IN  IF (~grow) /\ shrink /\ new_height = 0 /\ checks
        THEN [L EXCEPT !.viewport.width = width, !.status = "panic"]
        ELSE [L EXCEPT !.viewport = [offset |-> new_offset, height |-> new_height,
                                     width |-> width],
                       !.should_reprint = TRUE]

\* handle_index_change, run when the event set index_change_direction.
handle_index_change(L, filtering, checks) ==
    LET len == Len(L.indexes_to_display)
        m == move_selected_index(L.selected_index, L.viewport, len,
                                 L.index_change_direction, checks)
        moved == [L EXCEPT !.viewport = m.viewport, !.index_change_direction = <<>>]
        done == [moved EXCEPT !.selected_index = m.index,
                              !.typed_index = UsizeToString(m.index)]
        old_row == RowOf(L.selected_index, m.viewport.offset)
        new_row == RowOf(m.index, m.viewport.offset)
        visible == old_row > 0 /\ old_row <= m.viewport.height
                   /\ new_row > 0 /\ new_row <= m.viewport.height
    IN  IF m.panic THEN [moved EXCEPT !.status = "panic"]
        ELSE IF m.changed THEN [done EXCEPT !.should_reprint = TRUE]
        ELSE IF print_header_panics(filtering, m.index, len, m.viewport.width)
        THEN [moved EXCEPT !.status = "panic"]
        ELSE IF checks /\ (L.selected_index < m.viewport.offset
                           \/ m.index < m.viewport.offset)
        THEN [moved EXCEPT !.status = "panic"]   \* selected_index - viewport.offset
        ELSE IF visible
        THEN IF L.selected_index >= len \/ m.index >= len
             THEN [moved EXCEPT !.status = "panic"]  \* indexes_to_display[..]
             ELSE done
        ELSE [done EXCEPT !.should_reprint = TRUE]

\* The redraw at the top of the loop, run when should_reprint is set.
Reprint(L, defs, lc, checks) ==
    LET list == filter_displayed_indexes(defs, lc, L.filter_text)
        parsed == ParseUsize(L.typed_index)
        m == move_selected_index(L.selected_index, L.viewport, Len(list), <<>>, checks)
        sel == IF L.indexes_to_display = list
               THEN (IF parsed # <<>> THEN parsed[1] ELSE 0)
               ELSE m.index
        typed == IF L.indexes_to_display = list THEN L.typed_index
                 ELSE UsizeToString(sel)
        redrawn == [L EXCEPT !.indexes_to_display = list, !.selected_index = sel,
                             !.typed_index = typed, !.should_reprint = FALSE]
    IN  IF print_header_panics(L.is_filtering, sel, Len(list), L.viewport.width)
        THEN [redrawn EXCEPT !.status = "panic"]
        ELSE redrawn

\* One iteration of the loop from the event read on: the event's arm, the
\* index change, and the redraw that opens the next iteration.
Iteration(afterArm, defs, lc, checks) ==
    LET a == afterArm
        b == IF a.status = "ok" /\ a.index_change_direction # <<>>
             THEN handle_index_change(a, a.is_filtering, checks) ELSE a
        c == IF b.status = "ok" /\ b.should_reprint
             THEN Reprint(b, defs, lc, checks) ELSE b
    IN  c

\* ---------------------------------------------------------------- actions

\* Mutant: the drop leaves mouse capture as it is.
RawModeGuardDrop_KeepsMouse == [raw_mode |-> FALSE, mouse_capture |-> mouse_capture]

\* RawModeGuard::drop: disable_raw_mode, then DisableMouseCapture.
RawModeGuardDrop == [raw_mode |-> FALSE, mouse_capture |-> FALSE]

CommandLists ==
    { [i \in 1 .. n |-> CommandLabel(i)] : n \in 0 .. MaxCommands }

\* ExecArgs as clap fills it when no flag or argument is given.
DefaultArgs ==
    [ rerun_last_command |-> FALSE, command_id_or_index |-> <<>>,
      dry_run |-> FALSE, force |-> FALSE, skip_command_save |-> FALSE,
      parameters |-> <<>>, positional_arguments |-> <<>> ]

\* An execution template without a command line.
NoTemplate ==
    [malformed |-> FALSE, command |-> <<>>, tokens |-> <<>>, template_context |-> <<>>]

\* The locals of execute_command before any of them is assigned.
NoExecuteLocals ==
    /\ parsed_command_defs = <<>>
    /\ stored_last_command = <<>>
    /\ selected_option = NoChoice
    /\ execution_context = NoTemplate
    /\ parameter_definitions = <<>>
    /\ is_rerun = FALSE
    /\ filled_parameters = <<>>
    /\ need_to_prompt = FALSE
    /\ pending = <<>>
    /\ context = <<>>
    /\ rounds = 0
    /\ interpolated_command = <<>>
    /\ effects = <<>>
    /\ exit_code = "none"
    /\ error = "none"
    /\ error_detail = <<>>

\* RustCuts::default, for n command definitions read from the config file.
\* The fields of parameter entry and focus (parameter_values,
\* current_parameters, focused_parameter_index) are left out: no handler of
\* the execution messages reads them but to hand the values to the future.
Default(n) ==
    [command_definitions |-> n, selected_command |-> <<>>, output |-> <<>>,
     streaming_output |-> <<>>, execution_state |-> "Idle", progress_counter |-> 0]

\* The GUI application is not running.
NoGui ==
    /\ rust_cuts = Default(0)
    /\ tasks = {}
    /\ started = 0

\* The selector called on its own, outside an invocation.
NoInvocation == args = DefaultArgs /\ NoExecuteLocals /\ NoGui

Init ==
    /\ NoInvocation
    /\ pc = "init"
    /\ result = NoChoice
    /\ raw_mode = FALSE
    /\ mouse_capture = FALSE
    /\ guard = "none"
    /\ overflow_checks \in BOOLEAN
    /\ command_definitions \in CommandLists
    /\ last_command \in { <<>>, << LastLabel >> }
    /\ selected_index = 0
    /\ typed_index = <<>>
    /\ filter_text = <<>>
    /\ is_filtering = FALSE
    /\ indexes_to_display = <<>>
    /\ down_row = <<>>
    /\ viewport = [offset |-> 0, height |-> 0, width |-> 0]

\* The locals before the function is entered and after it is left.
NoLocals ==
    /\ selected_index' = 0
    /\ typed_index' = <<>>
    /\ filter_text' = <<>>
    /\ is_filtering' = FALSE
    /\ indexes_to_display' = <<>>
    /\ down_row' = <<>>
    /\ viewport' = [offset |-> 0, height |-> 0, width |-> 0]

\* Leaving prompt_for_command_choice once the guard exists: by a return, by an
\* error that `?` propagates, or by a panic that unwinds.  The guard is
\* dropped on the way out and the locals are gone.
Leave(how, choice) ==
    /\ pc' = how
    /\ result' = choice
    /\ raw_mode' = RawModeGuardDrop.raw_mode
    /\ mouse_capture' = RawModeGuardDrop.mouse_capture
    /\ guard' = "dropped"
    /\ NoLocals
    /\ UNCHANGED inputs

\* The end of an iteration: back to the event poll with the locals as the
\* iteration left them, or out of the function.
Finish(L) ==
    IF L.status = "ok"
    THEN /\ pc' = "polling"
         /\ result' = NoChoice
         /\ raw_mode' = TRUE
         /\ mouse_capture' = TRUE
         /\ guard' = "live"
         /\ selected_index' = L.selected_index
         /\ typed_index' = L.typed_index
         /\ filter_text' = L.filter_text
         /\ is_filtering' = L.is_filtering
         /\ indexes_to_display' = L.indexes_to_display
         /\ down_row' = L.down_row
         /\ viewport' = L.viewport
         /\ UNCHANGED inputs
    ELSE IF L.status = "return" THEN Leave("returned", L.ret)
    ELSE Leave("panicked", NoChoice)

\* prompt_for_command_choice up to the first event poll.  fail names the
\* fallible call that returns an error, "none" when all succeed.
Start(cols, rows, fail) ==
    /\ pc = "init"
    /\ IF fail = "enable_raw_mode"
       THEN /\ pc' = "error"
            /\ UNCHANGED << result, raw_mode, mouse_capture, guard, inputs,
                            selected_index, typed_index, filter_text, is_filtering,
                            indexes_to_display, down_row, viewport >>
       ELSE IF fail \in {"EnableMouseCapture", "size"}
       THEN Leave("error", NoChoice)
       ELSE Finish(Reprint(
                [Locals EXCEPT
                    !.indexes_to_display =
                        filter_displayed_indexes(command_definitions, last_command, <<>>),
                    !.viewport = [offset |-> 0, height |-> SaturatingSub(rows, 2),
                                  width |-> cols],
                    !.should_reprint = TRUE],
                command_definitions, last_command, overflow_checks))

\* Event::Key
KeyEvent(key, ctrl) ==
    /\ pc = "polling"
    /\ Len(filter_text) < MaxFilterLen
       \/ ~(key.code = "Char" /\ is_filtering /\ ~(key.ch = "c" /\ ctrl))
    /\ Finish(Iteration(KeyArm(key, ctrl, Locals, last_command),
                        command_definitions, last_command, overflow_checks))

\* Event::Mouse
MouseEvent(kind, row, modifiers) ==
    /\ pc = "polling"
    /\ Finish(Iteration(MouseArm(kind, row, modifiers, Locals, last_command,
                                 overflow_checks),
                        command_definitions, last_command, overflow_checks))

\* Event::Resize
ResizeEvent(cols, rows) ==
    /\ pc = "polling"
    /\ Finish(Iteration(handle_resize(cols, rows, Locals, overflow_checks),
                        command_definitions, last_command, overflow_checks))

\* Event::FocusGained, FocusLost, Paste, and a poll that times out.
OtherEvent ==
    /\ pc = "polling"
    /\ UNCHANGED vars

\* A terminal call of the iteration (poll, read, a write) returns an error,
\* which `?` propagates out of prompt_for_command_choice.
IoFailure ==
    /\ pc = "polling"
    /\ Leave("error", NoChoice)

Next ==
    \/ \E cols \in TermCols, rows \in TermRows,
          fail \in {"none", "enable_raw_mode", "EnableMouseCapture", "size"} :
          Start(cols, rows, fail)
    \/ \E e \in KeyEvents : KeyEvent(e.key, e.ctrl)
    \/ \E e \in MouseEvents : MouseEvent(e.kind, e.row, e.modifiers)
    \/ \E cols \in TermCols, rows \in TermRows : ResizeEvent(cols, rows)
    \/ OtherEvent
    \/ IoFailure

Spec == Init /\ [][Next]_vars

\* ------------------------------------------- filter_displayed_indexes alone

\* Characters of the filter texts tried.
FilterChars == { "2", "0", "+", "a" }

FilterTexts == UNION { [1 .. n -> FilterChars] : n \in 0 .. MaxTextLen }

\* A label without a digit and one that fuzzy-matches "2".
PlainLabel == << "a" >>
MarkedLabel == << "a", "2" >>

\* n commands, the k-th of which (none when k = 0) carries the marked label.
FilterList(n, k) == [i \in 1 .. n |-> IF i = k THEN MarkedLabel ELSE PlainLabel]

FilterLists ==
    { FilterList(n, k) : n \in (0 .. MaxCommands) \cup { 15 }, k \in 0 .. 15 }

FilterInit ==
    /\ NoInvocation
    /\ pc = "filter"
    /\ result = NoChoice
    /\ raw_mode = FALSE
    /\ mouse_capture = FALSE
    /\ guard = "none"
    /\ overflow_checks = FALSE
    /\ command_definitions \in FilterLists
    /\ last_command \in { <<>>, << LastLabel >>, << MarkedLabel >> }
    /\ selected_index = 0
    /\ typed_index = <<>>
    /\ filter_text = <<>>
    /\ is_filtering = FALSE
    /\ indexes_to_display = filter_displayed_indexes(command_definitions, last_command, <<>>)
    /\ down_row = <<>>
    /\ viewport = [offset |-> 0, height |-> 0, width |-> 0]

\* indexes_to_display = filter_displayed_indexes(&command_display, &filter_text)
FilterApply(text) ==
    /\ pc = "filter"
    /\ filter_text' = text
    /\ indexes_to_display' = filter_displayed_indexes(command_definitions, last_command, text)
    /\ UNCHANGED << pc, result, raw_mode, mouse_capture, guard, inputs, selected_index,
                    typed_index, is_filtering, down_row, viewport >>

FilterNext == \E text \in FilterTexts : FilterApply(text)

FilterSpec == FilterInit /\ [][FilterNext]_vars

\* ------------------------------------------------- the exec invocation

\* How often ChangeParams is answered at the confirmation prompt.
MaxRounds == 1

\* Token names, in the order `sorted()` gives them.
TokenNames == << << "a" >>, << "b" >> >>

\* The id of the first command of the config file.
FirstCommandId == << "g", "o" >>

\* command_id_or_index: absent, an index inside every list, the length of
\* the list of one command, an index outside every list, the id of a command,
\* an id of no command.
ExplicitArguments ==
    { <<>>, << << "0" >> >>, << << "1" >> >>, << << "9" >> >>, << FirstCommandId >>,
      << << "n", "o" >> >> }

\* `-p` arguments: none, a=1, a=1 b=2, a key of no token, no '=', two '='.
NamedArguments ==
    { <<>>,
      << << "a", "=", "1" >> >>,
      << << "a", "=", "1" >>, << "b", "=", "2" >> >>,
      << << "z", "=", "1" >> >>,
      << << "a" >> >>,
      << << "a", "=", "1", "=", "2" >> >> }

PositionalArguments == { <<>>, << << "1" >> >>, << << "1" >>, << "2" >> >> }

\* The command lines clap accepts.  The first free argument is the command
\* id or index, so positional arguments come with one.
ArgumentLists ==
    { a \in [ rerun_last_command : BOOLEAN, command_id_or_index : ExplicitArguments,
              dry_run : BOOLEAN, force : BOOLEAN, skip_command_save : BOOLEAN,
              parameters : NamedArguments,
              positional_arguments : PositionalArguments ] :
        /\ a.positional_arguments # <<>> => a.command_id_or_index # <<>>
        /\ (a.parameters # <<>> /\ a.positional_arguments # <<>>)
              => (Len(a.parameters) = 1 /\ Len(a.positional_arguments) = 1) }

\* A ParameterDefinition; description and default are Options.
ParameterDefinition(id, description, default) ==
    [id |-> id, description |-> description, default |-> default]

\* The elements of a list.
SetOf(list) == { list[k] : k \in 1 .. Len(list) }

\* The lists of a list, joined.
RECURSIVE Concat(_)
Concat(lists) == IF lists = <<>> THEN <<>> ELSE Head(lists) \o Concat(Tail(lists))

\* The items of a parsed leon Template: Item::Text and Item::Key.
Text(s) == [kind |-> "Text", s |-> s]
Key(k) == [kind |-> "Key", s |-> k]

\* The loop of get_ordered_context_variables: IndexSet::insert of every key.
RECURSIVE InsertKeys(_, _)
InsertKeys(variables, items) ==
    IF items = <<>> THEN variables
    ELSE InsertKeys(IF Head(items).kind = "Key" /\ Head(items).s \notin SetOf(variables)
                    THEN Append(variables, Head(items).s)
                    ELSE variables,
                    Tail(items))

\* get_ordered_context_variables, were a key kept where it appears last
get_ordered_context_variables_LastAppearance(templates) ==
    LET reverse(list) == [i \in 1 .. Len(list) |-> list[Len(list) + 1 - i]]
    IN  reverse(InsertKeys(<<>>, reverse(Concat(templates))))

\* TemplateParser::get_ordered_context_variables, of the parsed templates
get_ordered_context_variables(templates) == InsertKeys(<<>>, Concat(templates))

\* What the config file holds for a command: whether its command line is a
\* malformed template, else its templates as Template::parse reads them
\* (tokens: what get_ordered_context_variables makes of them), and the
\* parameters section as the map build_parameter_lookup makes of it.
CommandShape(malformed, templates, parameters) ==
    [malformed |-> malformed, command |-> templates,
     tokens |-> get_ordered_context_variables(templates), parameters |-> parameters]

\* The commands of the config files: `ls`, a malformed one, `{a}`, `{b} {a}`
\* without parameters, with a default for a, with a parameter a without
\* default.  validate_parameters has accepted the file: a parameters section
\* names tokens only, and comes with a well-formed command line.
CommandShapes ==
    { CommandShape(FALSE, << << Text(<< "l", "s" >>) >> >>, <<>>),
      CommandShape(TRUE, <<>>, <<>>),
      CommandShape(FALSE, << << Key(<< "a" >>) >> >>, <<>>),
      CommandShape(FALSE, << << Key(<< "b" >>) >>, << Key(<< "a" >>) >> >>, <<>>),
      CommandShape(FALSE, << << Key(<< "b" >>) >>, << Key(<< "a" >>) >> >>,
                   << [k \in { << "a" >> } |->
                          ParameterDefinition(k, << "about" >>, << << "d" >> >>)] >>),
      CommandShape(FALSE, << << Key(<< "b" >>) >>, << Key(<< "a" >>) >> >>,
                   << [k \in { << "a" >> } |->
                          ParameterDefinition(k, << "about" >>, <<>>)] >>) }

\* The config files read: n commands of one shape, the first with an id.
ConfigFiles ==
    { [i \in 1 .. n |-> [id |-> IF i = 1 THEN << FirstCommandId >> ELSE <<>>,
                         malformed |-> shape.malformed, command |-> shape.command,
                         tokens |-> shape.tokens, parameters |-> shape.parameters]] :
        n \in 1 .. MaxCommands, shape \in CommandShapes }

\* A CommandExecutionTemplate, as the last-command file holds it (tokens:
\* what get_ordered_context_variables makes of its command line).
ExecutionTemplate(malformed, templates, template_context) ==
    [malformed |-> malformed, command |-> templates,
     tokens |-> get_ordered_context_variables(templates),
     template_context |-> template_context]

\* The last-command files read: a command without tokens, one saved with the
\* values of its two tokens, one with a token and no values, a malformed one.
LastCommandFiles ==
    { ExecutionTemplate(FALSE, << << Text(<< "l", "s" >>) >> >>, <<>>),
      ExecutionTemplate(FALSE, << << Key(<< "b" >>) >>, << Key(<< "a" >>) >> >>,
                      << [k \in { << "a" >>, << "b" >> } |->
                             ParameterDefinition(k, <<>>, << << "p" >> \o k >>)] >>),
      ExecutionTemplate(FALSE, << << Key(<< "a" >>) >> >>, <<>>),
      ExecutionTemplate(TRUE, <<>>, <<>>) }

\* The lines the user types at a parameter prompt, up to the newline: an
\* empty one, a blank one, a value, a value with blanks around it.
TypedValues == { <<>>, << " " >>, << "x" >>, << " ", "x", " " >> }

\* str::split('='): the parts between the separators.
RECURSIVE Split(_)
Split(text) ==
    IF \E i \in 1 .. Len(text) : text[i] = "="
    THEN LET i == CHOOSE i \in 1 .. Len(text) :
                      text[i] = "=" /\ \A j \in 1 .. i - 1 : text[j] # "="
         IN  << SubSeq(text, 1, i - 1) >> \o Split(SubSeq(text, i + 1, Len(text)))
    ELSE << text >>

\* determine, were named arguments to win over positional ones
determine_NamedWins(named_args, positional_args) ==
    IF named_args # <<>>
    THEN [err |-> "none", kind |-> "Named", values |-> named_args]
    ELSE IF positional_args # <<>>
    THEN [err |-> "none", kind |-> "Positional", values |-> positional_args]
    ELSE [err |-> "none", kind |-> "None", values |-> <<>>]

\* arguments::style::determine, called through ExecArgs::get_style
determine(named_args, positional_args) ==
    IF named_args # <<>> /\ positional_args # <<>>
    THEN [err |-> "MixedParameterMode", kind |-> "None", values |-> <<>>]
    ELSE IF named_args # <<>>
    THEN [err |-> "none", kind |-> "Named", values |-> named_args]
    ELSE IF positional_args # <<>>
    THEN [err |-> "none", kind |-> "Positional", values |-> positional_args]
    ELSE [err |-> "none", kind |-> "None", values |-> <<>>]

\* Mutant: a supplied key always gets a new definition.
update_or_create_parameter_Replaces(param_defs, key, value) ==
    [k \in DOMAIN param_defs \cup { key } |->
        IF k # key THEN param_defs[k] ELSE ParameterDefinition(key, <<>>, << value >>)]

\* update_or_create_parameter: the default of an existing entry is
\* overwritten, and a new entry is made for a key that has none.
update_or_create_parameter(param_defs, key, value) ==
    [k \in DOMAIN param_defs \cup { key } |->
        IF k # key THEN param_defs[k]
        ELSE IF key \in DOMAIN param_defs
        THEN [param_defs[key] EXCEPT !.default = << value >>]
        ELSE ParameterDefinition(key, <<>>, << value >>)]

\* process_named_parameters: [err, detail, defs], detail what the error
\* carries: the entry for ParameterFormat, the key for MissingParameter.
RECURSIVE process_named_parameters(_, _, _)
process_named_parameters(named_params, ordered_tokens, param_defs) ==
    IF named_params = <<>> THEN [err |-> "none", detail |-> <<>>, defs |-> param_defs]
    ELSE LET parts == Split(Head(named_params))
         IN  IF Len(parts) # 2
             THEN [err |-> "ParameterFormat", detail |-> << Head(named_params) >>,
                   defs |-> param_defs]
             ELSE IF parts[1] \notin SetOf(ordered_tokens)
             THEN [err |-> "MissingParameter", detail |-> << parts[1] >>,
                   defs |-> param_defs]
             ELSE process_named_parameters(
                      Tail(named_params), ordered_tokens,
                      update_or_create_parameter(param_defs, parts[1], parts[2]))

\* Mutant: the values are handed out from the last to the first.
RECURSIVE MapPositional_LastFirst(_, _, _, _)
MapPositional_LastFirst(positional_params, ordered_tokens, param_defs, n) ==
    IF n = 0 THEN param_defs
    ELSE update_or_create_parameter(
             MapPositional_LastFirst(positional_params, ordered_tokens, param_defs, n - 1),
             ordered_tokens[n], positional_params[Len(positional_params) + 1 - n])

\* The loop of process_positional_parameters over the first n tokens.
RECURSIVE MapPositional(_, _, _, _)
MapPositional(positional_params, ordered_tokens, param_defs, n) ==
    IF n = 0 THEN param_defs
    ELSE update_or_create_parameter(
             MapPositional(positional_params, ordered_tokens, param_defs, n - 1),
             ordered_tokens[n], positional_params[n])

\* process_positional_parameters: [err, detail, defs], detail the expected
\* and the actual count of ParameterCountMismatch.
process_positional_parameters(positional_params, ordered_tokens, param_defs) ==
    IF Len(positional_params) # Len(ordered_tokens)
    THEN [err |-> "ParameterCountMismatch",
          detail |-> << Len(ordered_tokens), Len(positional_params) >>,
          defs |-> param_defs]
    ELSE [err |-> "none", detail |-> <<>>,
          defs |-> MapPositional(positional_params, ordered_tokens, param_defs,
                                 Len(ordered_tokens))]

\* process_command_line: [err, detail, value], value the Option of the map
process_command_line(argument_style, execution_template, definitions) ==
    LET ordered_tokens == execution_template.tokens
        param_defs == IF definitions # <<>> THEN definitions[1] ELSE <<>>
        named == process_named_parameters(argument_style.values, ordered_tokens, param_defs)
        positional == process_positional_parameters(argument_style.values, ordered_tokens,
                                                    param_defs)
    IN  IF ordered_tokens = <<>> THEN [err |-> "none", detail |-> <<>>, value |-> <<>>]
        ELSE IF argument_style.kind = "None"
        THEN [err |-> "none", detail |-> <<>>,
              value |-> IF DOMAIN param_defs = {} THEN <<>> ELSE << param_defs >>]
        ELSE IF argument_style.kind = "Named"
        THEN [err |-> named.err, detail |-> named.detail, value |-> << named.defs >>]
        ELSE [err |-> positional.err, detail |-> positional.detail,
              value |-> << positional.defs >>]

\* Mutant: declared defaults for every token make the prompting unnecessary.
should_prompt_for_parameters_DefaultsSuffice(tokens, filled, rerun, argument_style) ==
    IF tokens = <<>> THEN FALSE
    ELSE IF rerun THEN FALSE
    ELSE IF filled # <<>>
    THEN ~ (\A t \in SetOf(tokens) : t \in DOMAIN filled[1])
    ELSE TRUE

\* should_prompt_for_parameters
should_prompt_for_parameters(tokens, filled, rerun, argument_style) ==
    IF tokens = <<>> THEN FALSE
    ELSE IF rerun THEN FALSE
    ELSE IF argument_style.kind # "None" /\ filled # <<>>
    THEN ~ (\A t \in SetOf(tokens) : t \in DOMAIN filled[1])
    ELSE TRUE

\* The template context of a round: the parameters that have a value.
TemplateContext(filled) ==
    IF filled = <<>> THEN <<>>
    ELSE LET valued == { k \in DOMAIN filled[1] : filled[1][k].default # <<>> }
         IN  [k \in valued |-> filled[1][k].default[1]]

\* Template::render: the texts and the values of the keys, joined.
render(template, template_context) ==
    Concat([i \in 1 .. Len(template) |->
               IF template[i].kind = "Key" THEN template_context[template[i].s]
               ELSE template[i].s])

\* interpolate_command, were a key without a value left in the text as written
interpolate_command_KeepsPlaceholders(template_context, templates) ==
    [err |-> "none",
     command |->
         [i \in 1 .. Len(templates) |->
             Concat([j \in 1 .. Len(templates[i]) |->
                        IF templates[i][j].kind = "Text" THEN templates[i][j].s
                        ELSE IF templates[i][j].s \in DOMAIN template_context
                        THEN template_context[templates[i][j].s]
                        ELSE << "{" >> \o templates[i][j].s \o << "}" >>])]]

\* interpolate_command: rendering fails when a key has no value.
interpolate_command(template_context, templates) ==
    IF \E i \in 1 .. Len(templates) : \E j \in 1 .. Len(templates[i]) :
           /\ templates[i][j].kind = "Key"
           /\ templates[i][j].s \notin DOMAIN template_context
    THEN [err |-> "Render", command |-> <<>>]
    ELSE [err |-> "none",
          command |-> [i \in 1 .. Len(templates) |-> render(templates[i], template_context)]]

\* CommandChoice::CommandId
ChoiceId(id) == [kind |-> "CommandId", i |-> 0, cmd |-> id]

\* One thing the invocation did to the outside: "read_config",
\* "read_last_command", "select" (the selector was shown), "prompt" (of a
\* token, value the default offered), "print" (value the rendered command),
\* "confirm" (value the answer), "save" (value the template context
\* written), "execute" (value
\* the command run).
Effect(e, token, value) == [e |-> e, token |-> token, value |-> value]

\* The variables of the selector, which an invocation holds still between
\* the calls of prompt_for_command_choice.
selector == << result, raw_mode, mouse_capture, guard, overflow_checks,
               command_definitions, last_command, selected_index, typed_index,
               filter_text, is_filtering, indexes_to_display, down_row, viewport >>

files == << parsed_command_defs, stored_last_command >>
setup == << execution_context, parameter_definitions, is_rerun >>
round == << filled_parameters, need_to_prompt, pending, context, rounds,
            interpolated_command >>

InvocationInit ==
    /\ NoGui
    /\ pc = "execute_command"
    /\ result = NoChoice
    /\ raw_mode = FALSE
    /\ mouse_capture = FALSE
    /\ guard = "none"
    /\ overflow_checks = FALSE
    /\ command_definitions = <<>>
    /\ last_command = <<>>
    /\ selected_index = 0
    /\ typed_index = <<>>
    /\ filter_text = <<>>
    /\ is_filtering = FALSE
    /\ indexes_to_display = <<>>
    /\ down_row = <<>>
    /\ viewport = [offset |-> 0, height |-> 0, width |-> 0]
    /\ args \in ArgumentLists
    /\ NoExecuteLocals

\* execute_command returns Err(err): main prints it and exits with FAILURE.
Fail(err) ==
    /\ pc' = "exit"
    /\ exit_code' = "FAILURE"
    /\ error' = err
    /\ error_detail' = <<>>

\* The same for an Error of processing.rs, with the values it carries.
FailWith(err, detail) ==
    /\ pc' = "exit"
    /\ exit_code' = "FAILURE"
    /\ error' = err
    /\ error_detail' = detail

\* execute_command returns Ok(()): main exits with SUCCESS.
Succeed ==
    /\ pc' = "exit"
    /\ exit_code' = "SUCCESS"
    /\ error' = "none"
    /\ error_detail' = <<>>

\* Mutant: only the dry-run message ends the invocation cleanly.
CleanExit_DryRunOnly(message) == message = "Dry run completed"

\* The match of execute_command on the result of process_parameters_and_confirm:
\* an Error::Misc whose message contains "Dry run" or "cancelled" becomes
\* Ok(()).  Of the messages the program makes, these two do.
CleanExit(message) ==
    message \in { "Dry run completed", "Command execution cancelled by user" }

\* process_parameters_and_confirm returns Err(Error::Misc(message)).
ReturnMisc(message) == IF CleanExit(message) THEN Succeed ELSE Fail("Misc")

\* initialize_config, first half: get_command_definitions.  failure is
\* "none", "Io" (the file cannot be opened) or "Parse" (validate_parameters
\* meets a malformed command line in a command with a parameters section).
ReadConfig(file, failure) ==
    /\ pc = "execute_command"
    /\ effects' = Append(effects, Effect("read_config", <<>>, <<>>))
    /\ IF failure # "none"
       THEN Fail(failure) /\ UNCHANGED parsed_command_defs
       ELSE /\ parsed_command_defs' = file
            /\ pc' = "get_last_command"
            /\ UNCHANGED << exit_code, error, error_detail >>
    /\ UNCHANGED << gui, selector, args, stored_last_command, selected_option, setup, round >>

\* initialize_config, second half: get_last_command.  how: the file is
\* "missing" (Ok(None)), "invalid" (an error) or "read".
ReadLastCommand(file, how) ==
    /\ pc = "get_last_command"
    /\ effects' = Append(effects, Effect("read_last_command", <<>>, <<>>))
    /\ IF how = "invalid"
       THEN Fail("Yaml") /\ UNCHANGED stored_last_command
       ELSE /\ stored_last_command' = IF how = "read" THEN << file >> ELSE <<>>
            /\ pc' = "determine_command_choice"
            /\ UNCHANGED << exit_code, error, error_detail >>
    /\ UNCHANGED << gui, selector, args, parsed_command_defs, selected_option, setup, round >>

\* get_rerun_request_is_valid: [err, value]
get_rerun_request_is_valid(a) ==
    IF ~ a.rerun_last_command THEN [err |-> "none", value |-> FALSE]
    ELSE IF a.command_id_or_index # <<>> THEN [err |-> "RerunWithIndex", value |-> FALSE]
    ELSE [err |-> "none", value |-> TRUE]

\* determine_command_choice, were the length of the list accepted as an index
DetermineCommandChoice_AcceptsLength ==
    /\ pc = "determine_command_choice"
    /\ LET valid == get_rerun_request_is_valid(args)
           explicit == args.command_id_or_index
           index == ParseUsize(explicit[1])
       IN  IF valid.err # "none"
           THEN Fail(valid.err) /\ UNCHANGED selected_option
           ELSE IF valid.value /\ stored_last_command # <<>>
           THEN /\ selected_option' = ChoiceRerun(stored_last_command[1])
                /\ pc' = "setup_execution_context"
                /\ UNCHANGED << exit_code, error, error_detail >>
           ELSE IF explicit = <<>>
           THEN /\ pc' = "prompt_for_command_choice"
                /\ UNCHANGED << selected_option, exit_code, error, error_detail >>
           ELSE IF index # <<>> /\ index[1] > Len(parsed_command_defs)
           THEN Fail("Misc") /\ UNCHANGED selected_option
           ELSE /\ selected_option' = IF index # <<>> THEN ChoiceIndex(index[1])
                                      ELSE ChoiceId(explicit[1])
                /\ pc' = "setup_execution_context"
                /\ UNCHANGED << exit_code, error, error_detail >>
    /\ UNCHANGED << gui, selector, args, files, setup, round, effects >>

\* determine_command_choice, and get_selected_option up to the call of the
\* selector.
DetermineCommandChoice ==
    /\ pc = "determine_command_choice"
    /\ LET valid == get_rerun_request_is_valid(args)
           explicit == args.command_id_or_index
           index == ParseUsize(explicit[1])
       IN  IF valid.err # "none"
           THEN Fail(valid.err) /\ UNCHANGED selected_option
           ELSE IF valid.value /\ stored_last_command # <<>>
           THEN /\ selected_option' = ChoiceRerun(stored_last_command[1])
                /\ pc' = "setup_execution_context"
                /\ UNCHANGED << exit_code, error, error_detail >>
           ELSE IF explicit = <<>>
           THEN /\ pc' = "prompt_for_command_choice"
                /\ UNCHANGED << selected_option, exit_code, error, error_detail >>
           ELSE IF index # <<>> /\ index[1] >= Len(parsed_command_defs)
           THEN Fail("Misc") /\ UNCHANGED selected_option
           ELSE /\ selected_option' = IF index # <<>> THEN ChoiceIndex(index[1])
                                      ELSE ChoiceId(explicit[1])
                /\ pc' = "setup_execution_context"
                /\ UNCHANGED << exit_code, error, error_detail >>
    /\ UNCHANGED << gui, selector, args, files, setup, round, effects >>

\* What prompt_for_command_choice can return for these lists: the entry a
\* click commits.  (Its key arm never returns a choice, Quit included.)
SelectorChoices ==
    { ChoiceIndex(i - 1) : i \in 1 .. Len(parsed_command_defs) }
        \cup { ChoiceRerun(stored_last_command[k]) : k \in 1 .. Len(stored_last_command) }

\* get_selected_option without an explicit argument: the selector runs and
\* returns a choice, or it or the terminal calls after it fail.
SelectInteractively(choice, fail) ==
    /\ pc = "prompt_for_command_choice"
    /\ effects' = Append(effects, Effect("select", <<>>, <<>>))
    /\ IF fail
       THEN Fail("SubProcess") /\ UNCHANGED selected_option
       ELSE /\ selected_option' = choice
            /\ pc' = "setup_execution_context"
            /\ UNCHANGED << exit_code, error, error_detail >>
    /\ UNCHANGED << gui, selector, args, files, setup, round >>

\* The command with the given id, as `find` returns it: <<>> when none has it.
FindCommand(defs, id) ==
    LET hits == { i \in 1 .. Len(defs) : defs[i].id = << id >> }
    IN  IF hits = {} THEN <<>>
        ELSE << defs[CHOOSE i \in hits : \A j \in hits : i <= j] >>

\* CommandExecutionTemplate::from_command_definition
from_command_definition(definition) ==
    [malformed |-> definition.malformed, command |-> definition.command,
     tokens |-> definition.tokens, template_context |-> <<>>]

\* The early return of execute_command on Quit, then setup_execution_context.
SetupExecutionContext ==
    /\ pc = "setup_execution_context"
    /\ LET found == FindCommand(parsed_command_defs, selected_option.cmd)
           selected_command ==
               IF selected_option.kind = "Index"
               THEN parsed_command_defs[selected_option.i + 1]
               ELSE found[1]
       IN  IF selected_option.kind = "Quit"
           THEN Succeed /\ UNCHANGED setup
           ELSE IF selected_option.kind = "CommandId" /\ found = <<>>
           THEN Fail("CommandNotFound") /\ UNCHANGED setup
           ELSE /\ IF selected_option.kind = "Rerun"
                   THEN /\ execution_context' = selected_option.cmd
                        /\ parameter_definitions' = selected_option.cmd.template_context
                        /\ is_rerun' = TRUE
                   ELSE /\ execution_context' = from_command_definition(selected_command)
                        /\ parameter_definitions' = selected_command.parameters
                        /\ is_rerun' = FALSE
                /\ pc' = "process_parameters_and_confirm"
                /\ UNCHANGED << exit_code, error, error_detail >>
    /\ UNCHANGED << gui, selector, args, files, selected_option, round, effects >>

\* Mutant: the command-line values are merged in only after the first
\* token was prompted for.
ProcessCommandLine_PromptsFirst ==
    /\ pc = "process_parameters_and_confirm"
    /\ LET tokens == execution_context.tokens
           style == determine(args.parameters, args.positional_arguments)
           merged == process_command_line(style, execution_context, parameter_definitions)
           filled == IF tokens = <<>> THEN <<>> ELSE merged.value
       IN  IF execution_context.malformed
           THEN Fail("Parse") /\ UNCHANGED << filled_parameters, need_to_prompt, effects >>
           ELSE IF style.err # "none"
           THEN Fail(style.err) /\ UNCHANGED << filled_parameters, need_to_prompt, effects >>
           ELSE IF tokens # <<>> /\ merged.err # "none"
           THEN /\ FailWith(merged.err, merged.detail)
                /\ effects' = Append(effects, Effect("prompt", Head(tokens), <<>>))
                /\ UNCHANGED << filled_parameters, need_to_prompt >>
           ELSE /\ filled_parameters' = filled
                /\ need_to_prompt' =
                       should_prompt_for_parameters(tokens, filled, is_rerun, style)
                /\ pc' = "loop"
                /\ UNCHANGED << exit_code, error, error_detail, effects >>
    /\ UNCHANGED << gui, selector, args, files, selected_option, setup, pending, context,
                    rounds, interpolated_command >>

\* process_parameters_and_confirm up to its loop: the templates are parsed,
\* the command-line values are merged in, and the first prompt check is made.
ProcessCommandLine ==
    /\ pc = "process_parameters_and_confirm"
    /\ LET tokens == execution_context.tokens
           style == determine(args.parameters, args.positional_arguments)
           merged == process_command_line(style, execution_context, parameter_definitions)
           filled == IF tokens = <<>> THEN <<>> ELSE merged.value
       IN  IF execution_context.malformed
           THEN Fail("Parse") /\ UNCHANGED << filled_parameters, need_to_prompt, effects >>
           ELSE IF style.err # "none"
           THEN Fail(style.err) /\ UNCHANGED << filled_parameters, need_to_prompt, effects >>
           ELSE IF tokens # <<>> /\ merged.err # "none"
           THEN /\ FailWith(merged.err, merged.detail)
                /\ UNCHANGED << filled_parameters, need_to_prompt, effects >>
           ELSE /\ filled_parameters' = filled
                /\ need_to_prompt' =
                       should_prompt_for_parameters(tokens, filled, is_rerun, style)
                /\ pc' = "loop"
                /\ UNCHANGED << exit_code, error, error_detail, effects >>
    /\ UNCHANGED << gui, selector, args, files, selected_option, setup, pending, context,
                    rounds, interpolated_command >>

\* The characters of the token names, in the order of their bytes.
Alphabet == << "a", "b", "h", "o", "p", "r", "s", "t", "u" >>

\* The Ord of String: lexicographic by bytes, a proper prefix first.
RECURSIVE Precedes(_, _)
Precedes(s, t) ==
    LET rank(c) == CHOOSE i \in 1 .. Len(Alphabet) : Alphabet[i] = c
    IN  IF t = <<>> THEN FALSE
        ELSE IF s = <<>> THEN TRUE
        ELSE IF Head(s) = Head(t) THEN Precedes(Tail(s), Tail(t))
        ELSE rank(Head(s)) < rank(Head(t))

\* Mutant: the tokens are taken from the greatest to the least.
RECURSIVE sorted_Descending(_)
sorted_Descending(tokens) ==
    IF tokens = {} THEN <<>>
    ELSE LET greatest == CHOOSE s \in tokens : \A t \in tokens \ { s } : Precedes(t, s)
         IN  << greatest >> \o sorted_Descending(tokens \ { greatest })

\* Itertools::sorted of the tokens of an IndexSet, which are distinct.
RECURSIVE sorted(_)
sorted(tokens) ==
    IF tokens = {} THEN <<>>
    ELSE LET least == CHOOSE s \in tokens : \A t \in tokens \ { s } : Precedes(s, t)
         IN  << least >> \o sorted(tokens \ { least })

\* The top of the loop of process_parameters_and_confirm: without tokens
\* there are no parameters; with need_to_prompt fill_parameter_values is
\* entered, which takes the tokens in sorted order.
BeginRound ==
    /\ pc = "loop"
    /\ IF execution_context.tokens = <<>>
       THEN /\ filled_parameters' = <<>>
            /\ pc' = "interpolate_command"
            /\ UNCHANGED << pending, context >>
       ELSE IF need_to_prompt
       THEN /\ pending' = sorted(SetOf(execution_context.tokens))
            /\ context' = <<>>
            /\ pc' = "fill_parameter_values"
            /\ UNCHANGED filled_parameters
       ELSE /\ pc' = "interpolate_command"
            /\ UNCHANGED << filled_parameters, pending, context >>
    /\ UNCHANGED << gui, selector, args, files, selected_option, setup, need_to_prompt,
                    rounds, interpolated_command, effects, exit_code, error, error_detail >>

\* The parameter of a map under a key, as an Option.
Lookup(map, key) ==
    IF map # <<>> /\ key \in DOMAIN map[1] THEN << map[1][key] >> ELSE <<>>

\* Mutant: the default of the definition is preferred to the value of the
\* existing context.
previous_default_DefinitionFirst(key, definitions, existing_context) ==
    LET previous_context_param == Lookup(existing_context, key)
        param_definition == Lookup(definitions, key)
    IN  IF param_definition # <<>> /\ param_definition[1].default # <<>>
        THEN param_definition[1].default
        ELSE IF previous_context_param # <<>> THEN previous_context_param[1].default
        ELSE <<>>

\* The default fill_parameter_values offers for a key: the value of the
\* existing context, else the default of the definition.
previous_default(key, definitions, existing_context) ==
    LET previous_context_param == Lookup(existing_context, key)
        param_definition == Lookup(definitions, key)
    IN  IF previous_context_param # <<>> /\ previous_context_param[1].default # <<>>
        THEN previous_context_param[1].default
        ELSE IF param_definition # <<>> THEN param_definition[1].default
        ELSE <<>>

\* create_or_update_parameter of input.rs: the parameter of the existing
\* context, else the one of the definitions, with the value as its default;
\* a new one when there is neither.
create_or_update_parameter(key, value, previous_context_param, parameter_definition) ==
    IF previous_context_param # <<>>
    THEN [previous_context_param[1] EXCEPT !.default = << value >>]
    ELSE IF parameter_definition # <<>>
    THEN [parameter_definition[1] EXCEPT !.default = << value >>]
    ELSE ParameterDefinition(key, <<>>, << value >>)

\* str::trim_start and str::trim, of a line whose white space is blanks
RECURSIVE trim_start(_)
trim_start(text) ==
    IF text # <<>> /\ Head(text) = " " THEN trim_start(Tail(text)) ELSE text

trim(text) ==
    LET reverse(t) == [i \in 1 .. Len(t) |-> t[Len(t) + 1 - i]]
    IN  reverse(trim_start(reverse(trim_start(text))))

\* Mutant: an empty line is returned when there is no default.
prompt_value_AcceptsEmpty(input, parameter_definition, default) ==
    LET read_value == trim(input)
    IN  IF read_value # <<>> THEN << read_value >>
        ELSE IF default # <<>> THEN default
        ELSE << <<>> >>

\* One pass of the loop of prompt_value for the line read: the Option of the
\* value it returns, none when it goes round to ask again.
prompt_value(input, parameter_definition, default) ==
    LET read_value == trim(input)
    IN  IF read_value # <<>> THEN << read_value >>
        ELSE IF default # <<>> THEN default
        ELSE IF parameter_definition # <<>> THEN parameter_definition[1].default
        ELSE <<>>

\* One pass of the loop of prompt_value inside a turn of the loop of
\* fill_parameter_values.  When prompt_value returns, the turn ends with the
\* insertion of the value ("prompt" is logged with the default offered);
\* when it asks again, nothing but the terminal has changed.
PromptValue(typed) ==
    /\ pc = "fill_parameter_values"
    /\ LET key == Head(pending)
           previous_context_param == Lookup(filled_parameters, key)
           param_definition == Lookup(parameter_definitions, key)
           default == previous_default(key, parameter_definitions, filled_parameters)
           display_param == IF previous_context_param # <<>> THEN previous_context_param
                            ELSE param_definition
           prompted_value == prompt_value(typed, display_param, default)
           new_param == create_or_update_parameter(
                            key, prompted_value[1], previous_context_param,
                            param_definition)
           new_context == [k \in DOMAIN context \cup { key } |->
                              IF k = key THEN new_param ELSE context[k]]
       IN  IF prompted_value = <<>>
           THEN UNCHANGED << effects, pending, context, filled_parameters, pc >>
           ELSE /\ effects' = Append(effects, Effect("prompt", key, default))
                /\ pending' = Tail(pending)
                /\ context' = new_context
                /\ IF Tail(pending) = <<>>
                   THEN /\ filled_parameters' = << new_context >>
                        /\ pc' = "interpolate_command"
                   ELSE UNCHANGED << filled_parameters, pc >>
    /\ UNCHANGED << gui, selector, args, files, selected_option, setup, need_to_prompt,
                    rounds, interpolated_command, exit_code, error, error_detail >>

\* Mutant: force is looked at before dry-run.
after_print_ForceFirst(a) ==
    IF a.force THEN "break" ELSE IF a.dry_run THEN "return" ELSE "confirm"

\* Mutant: force does not skip the confirmation.
after_print_ForceConfirms(a) ==
    IF a.dry_run THEN "return" ELSE "confirm"

\* What follows the print of the rendered command: the dry-run flag is
\* looked at first, then force, and without either the user is asked.
after_print(a) ==
    IF a.dry_run THEN "return" ELSE IF a.force THEN "break" ELSE "confirm"

\* The rest of a round up to the confirmation: the template context is built
\* from the parameters that have a value, the command is rendered and
\* printed; a dry run ends here, and force leaves the loop.
RenderAndPrint ==
    /\ pc = "interpolate_command"
    /\ LET rendered == interpolate_command(TemplateContext(filled_parameters),
                                           execution_context.command)
       IN  IF rendered.err # "none"
           THEN /\ Fail(rendered.err)
                /\ UNCHANGED << execution_context, interpolated_command, effects >>
           ELSE /\ effects' = Append(effects, Effect("print", <<>>, rendered.command))
                /\ interpolated_command' = rendered.command
                /\ IF after_print(args) = "return"
                   THEN ReturnMisc("Dry run completed") /\ UNCHANGED execution_context
                   ELSE IF after_print(args) = "break"
                   THEN /\ execution_context' =
                               [execution_context EXCEPT
                                    !.template_context = filled_parameters]
                        /\ pc' = "write_last_command"
                        /\ UNCHANGED << exit_code, error, error_detail >>
                   ELSE /\ pc' = "confirm_command_should_run"
                        /\ UNCHANGED << execution_context, exit_code, error, error_detail >>
    /\ UNCHANGED << gui, selector, args, files, selected_option, parameter_definitions,
                    is_rerun, filled_parameters, need_to_prompt, pending, context,
                    rounds >>

\* confirm_command_should_run and the match on its answer.  ChangeParams is
\* offered only when the command has tokens.
Confirm(answer) ==
    /\ pc = "confirm_command_should_run"
    /\ answer = "ChangeParams"
          => (execution_context.tokens # <<>> /\ rounds < MaxRounds)
    /\ effects' = Append(effects, Effect("confirm", <<>>, answer))
    /\ IF answer = "Yes"
       THEN /\ execution_context' =
                   [execution_context EXCEPT !.template_context = filled_parameters]
            /\ pc' = "write_last_command"
            /\ UNCHANGED << need_to_prompt, rounds, exit_code, error, error_detail >>
       ELSE IF answer = "No"
       THEN /\ ReturnMisc("Command execution cancelled by user")
            /\ UNCHANGED << execution_context, need_to_prompt, rounds >>
       ELSE /\ need_to_prompt' = TRUE
            /\ rounds' = rounds + 1
            /\ pc' = "loop"
            /\ UNCHANGED << execution_context, exit_code, error, error_detail >>
    /\ UNCHANGED << gui, selector, args, files, selected_option, parameter_definitions,
                    is_rerun, filled_parameters, pending, context,
                    interpolated_command >>

\* The read of the terminal at a parameter or confirmation prompt fails.
StdinFailure ==
    /\ pc \in { "fill_parameter_values", "confirm_command_should_run" }
    /\ Fail("SubProcess")
    /\ UNCHANGED << gui, selector, args, files, selected_option, setup, round, effects >>

\* Mutant: the declared parameters are written, not the resolved ones.
SaveLastCommand_WritesDeclared(fail) ==
    /\ pc = "write_last_command"
    /\ IF args.skip_command_save
       THEN /\ pc' = "execute"
            /\ UNCHANGED << effects, exit_code, error, error_detail >>
       ELSE IF fail
       THEN Fail("Io") /\ UNCHANGED effects
       ELSE /\ effects' = Append(effects, Effect("save", <<>>, parameter_definitions))
            /\ pc' = "execute"
            /\ UNCHANGED << exit_code, error, error_detail >>
    /\ UNCHANGED << gui, selector, args, files, selected_option, setup, round >>

\* SaveLastCommand, were the result of write_last_command dropped
SaveLastCommand_IgnoresFailure(fail) ==
    /\ pc = "write_last_command"
    /\ IF args.skip_command_save \/ fail
       THEN UNCHANGED effects
       ELSE effects' = Append(effects,
                              Effect("save", <<>>, execution_context.template_context))
    /\ pc' = "execute"
    /\ UNCHANGED << exit_code, error, error_detail >>
    /\ UNCHANGED << gui, selector, args, files, selected_option, setup, round >>

\* The save of execute_command: skipped with skip_command_save, else
\* write_last_command, which may fail.
SaveLastCommand(fail) ==
    /\ pc = "write_last_command"
    /\ IF args.skip_command_save
       THEN /\ pc' = "execute"
            /\ UNCHANGED << effects, exit_code, error, error_detail >>
       ELSE IF fail
       THEN Fail("Io") /\ UNCHANGED effects
       ELSE /\ effects' = Append(effects,
                                 Effect("save", <<>>, execution_context.template_context))
            /\ pc' = "execute"
            /\ UNCHANGED << exit_code, error, error_detail >>
    /\ UNCHANGED << gui, selector, args, files, selected_option, setup, round >>

\* execution::execute_command: the shell is spawned with the rendered command
\* and waited for.  outcome is "success", "spawn" (spawn or wait fails with
\* an io error) or "exit" (the shell exits without success).
Execute(outcome) ==
    /\ pc = "execute"
    /\ effects' = Append(effects, Effect("execute", <<>>, interpolated_command))
    /\ IF outcome = "success" THEN Succeed
       ELSE IF outcome = "spawn" THEN Fail("SubProcess")
       ELSE Fail("SubProcessExit")
    /\ UNCHANGED << gui, selector, args, files, selected_option, setup, round >>

InvocationNext ==
    \/ \E file \in ConfigFiles, failure \in { "none", "Io", "Parse" } :
          ReadConfig(file, failure)
    \/ \E file \in LastCommandFiles, how \in { "missing", "invalid", "read" } :
          ReadLastCommand(file, how)
    \/ DetermineCommandChoice
    \/ \E choice \in SelectorChoices, fail \in BOOLEAN : SelectInteractively(choice, fail)
    \/ SetupExecutionContext
    \/ ProcessCommandLine
    \/ BeginRound
    \/ \E typed \in TypedValues : PromptValue(typed)
    \/ RenderAndPrint
    \/ \E answer \in { "Yes", "No", "ChangeParams" } : Confirm(answer)
    \/ StdinFailure
    \/ \E fail \in BOOLEAN : SaveLastCommand(fail)
    \/ \E outcome \in { "success", "spawn", "exit" } : Execute(outcome)

InvocationSpec == InvocationInit /\ [][InvocationNext]_vars

\* ------------------------- process_parameters_and_confirm up to its print

\* Token names of the ssh command.
Host == << "h", "o", "s", "t" >>
Port == << "p", "o", "r", "t" >>
User == << "u", "s", "e", "r" >>

\* The command lines merged: `ls`, `{a}`, `{b} {a} {b}` and
\* `ssh -p {port} {user}@{host}`.
MergeTemplates ==
    { << << Text(<< "l", "s" >>) >> >>,
      << << Key(<< "a" >>) >> >>,
      << << Key(<< "b" >>) >>, << Key(<< "a" >>) >>, << Key(<< "b" >>) >> >>,
      << << Text(<< "s", "s", "h" >>) >>, << Text(<< "-", "p" >>) >>, << Key(Port) >>,
         << Key(User), Text(<< "@" >>), Key(Host) >> >> }

\* The default a parameter declares when it declares one.
DeclaredDefault(key) ==
    IF key = Port THEN << "2", "2" >>
    ELSE IF key = User THEN << "u", "b", "u", "n", "t", "u" >>
    ELSE << "d" >> \o key

\* The base maps of a command: none, or entries for some of its tokens, each
\* with a description and some of them with a default.
BaseMaps(tokens) ==
    { <<>> } \cup
    { << [k \in keys |->
             ParameterDefinition(k, << "about" >>,
                                 IF k \in valued THEN << DeclaredDefault(k) >> ELSE <<>>)] >> :
        keys \in SUBSET SetOf(tokens) \ { {} }, valued \in SUBSET SetOf(tokens) }

\* The argument lists merged, each of a dry run: of one style, or with one
\* value of each style.  The Named lists add to NamedArguments a value for b
\* alone, a key given twice, an unknown key before a malformed entry and
\* values for the ssh command; the Positional lists add three values.
MergeArguments ==
    LET named_lists ==
            NamedArguments \cup
            { << << "b", "=", "2" >> >>,
              << << "a", "=", "1" >>, << "a", "=", "2" >> >>,
              << << "z", "=", "1" >>, << "a" >> >>,
              << Port \o << "=", "2", "2", "2", "2" >> >>,
              << Host \o << "=", "h" >>, User \o << "=", "r" >>, Port \o << "=", "1" >> >> }
        positional_lists ==
            PositionalArguments \cup
            { << << "1" >>, << "2" >>, << "3" >> >>,
              << << "2", "2", "2", "2" >>, << "a", "d", "m", "i", "n" >>,
                 << "1", "0", ".", "0", ".", "0", ".", "5" >> >> }
    IN  { a \in { [DefaultArgs EXCEPT !.dry_run = TRUE, !.parameters = named,
                                      !.positional_arguments = positional] :
                     named \in named_lists, positional \in positional_lists } :
            (a.parameters # <<>> /\ a.positional_arguments # <<>>)
                => (Len(a.parameters) = 1 /\ Len(a.positional_arguments) = 1) }

\* The selector is not running.
IdleSelector ==
    /\ result = NoChoice
    /\ raw_mode = FALSE
    /\ mouse_capture = FALSE
    /\ guard = "none"
    /\ overflow_checks = FALSE
    /\ command_definitions = <<>>
    /\ last_command = <<>>
    /\ selected_index = 0
    /\ typed_index = <<>>
    /\ filter_text = <<>>
    /\ is_filtering = FALSE
    /\ indexes_to_display = <<>>
    /\ down_row = <<>>
    /\ viewport = [offset |-> 0, height |-> 0, width |-> 0]

\* process_parameters_and_confirm called for a template that parses, with a
\* base map for some of its tokens: the declared parameters, or on a rerun
\* the context of the template.
MergeInit ==
    /\ NoGui
    /\ pc = "process_parameters_and_confirm"
    /\ IdleSelector
    /\ args \in MergeArguments
    /\ parsed_command_defs = <<>>
    /\ stored_last_command = <<>>
    /\ selected_option = NoChoice
    /\ is_rerun \in BOOLEAN
    /\ \E templates \in MergeTemplates :
           /\ parameter_definitions \in BaseMaps(get_ordered_context_variables(templates))
           /\ execution_context =
                  ExecutionTemplate(FALSE, templates,
                                    IF is_rerun THEN parameter_definitions ELSE <<>>)
    /\ filled_parameters = <<>>
    /\ need_to_prompt = FALSE
    /\ pending = <<>>
    /\ context = <<>>
    /\ rounds = 0
    /\ interpolated_command = <<>>
    /\ effects = <<>>
    /\ exit_code = "none"
    /\ error = "none"
    /\ error_detail = <<>>

MergeNext ==
    \/ ProcessCommandLine
    \/ BeginRound
    \/ RenderAndPrint

MergeSpec == MergeInit /\ [][MergeNext]_vars

\* ------------------------------- fill_parameter_values and what follows

\* The existing contexts of a command: none, or entries for some of its
\* tokens, some of them with a value, which is not the declared default.
ContextMaps(tokens) ==
    { IF map = <<>> THEN <<>>
      ELSE << [k \in DOMAIN map[1] |->
                  ParameterDefinition(k, <<>>,
                                      IF map[1][k].default = <<>> THEN <<>>
                                      ELSE << << "p" >> \o k >>)] >> :
        map \in BaseMaps(tokens) }

\* The loop of process_parameters_and_confirm entered with prompting asked
\* for, on a dry run: fill_parameter_values is called with the declared
\* parameters and an existing context.
FillInit ==
    /\ NoGui
    /\ pc = "loop"
    /\ IdleSelector
    /\ args = [DefaultArgs EXCEPT !.dry_run = TRUE]
    /\ parsed_command_defs = <<>>
    /\ stored_last_command = <<>>
    /\ selected_option = NoChoice
    /\ is_rerun = FALSE
    /\ \E templates \in MergeTemplates :
           /\ execution_context = ExecutionTemplate(FALSE, templates, <<>>)
           /\ parameter_definitions \in BaseMaps(get_ordered_context_variables(templates))
           /\ filled_parameters \in ContextMaps(get_ordered_context_variables(templates))
    /\ need_to_prompt = TRUE
    /\ pending = <<>>
    /\ context = <<>>
    /\ rounds = 0
    /\ interpolated_command = <<>>
    /\ effects = <<>>
    /\ exit_code = "none"
    /\ error = "none"
    /\ error_detail = <<>>

FillNext ==
    \/ BeginRound
    \/ \E typed \in TypedValues : PromptValue(typed)
    \/ StdinFailure
    \/ RenderAndPrint

FillSpec == FillInit /\ [][FillNext]_vars

\* ------------------------------------ get_ordered_context_variables alone

\* How many templates a command line has, and how many items a template has.
MaxTemplates == 2
MaxItems == 2

\* The items of the templates scanned: a text and the keys a and b.
TemplateItems == { Text(<< "x" >>), Key(<< "a" >>), Key(<< "b" >>) }

\* What Template::parse returns for the strings of a command line: item
\* lists in which no text follows a text.
ParsedTemplates ==
    { t \in UNION { [1 .. n -> TemplateItems] : n \in 0 .. MaxItems } :
        \A i \in 1 .. Len(t) - 1 : ~ (t[i].kind = "Text" /\ t[i + 1].kind = "Text") }

\* The template lists of get_templates.
TemplateLists == UNION { [1 .. n -> ParsedTemplates] : n \in 0 .. MaxTemplates }

\* A command line whose templates are parsed and whose variables are not
\* extracted yet.
TokensInit ==
    /\ NoGui
    /\ pc = "get_ordered_context_variables"
    /\ IdleSelector
    /\ args = DefaultArgs
    /\ parsed_command_defs = <<>>
    /\ stored_last_command = <<>>
    /\ selected_option = NoChoice
    /\ is_rerun = FALSE
    /\ \E templates \in TemplateLists :
           execution_context = [NoTemplate EXCEPT !.command = templates]
    /\ parameter_definitions = <<>>
    /\ filled_parameters = <<>>
    /\ need_to_prompt = FALSE
    /\ pending = <<>>
    /\ context = <<>>
    /\ rounds = 0
    /\ interpolated_command = <<>>
    /\ effects = <<>>
    /\ exit_code = "none"
    /\ error = "none"
    /\ error_detail = <<>>

\* TemplateParser::get_ordered_context_variables, called
GetOrderedContextVariables ==
    /\ pc = "get_ordered_context_variables"
    /\ pc' = "variables"
    /\ execution_context' =
           [execution_context EXCEPT
               !.tokens = get_ordered_context_variables(execution_context.command)]
    /\ UNCHANGED << gui, selector >>
    /\ UNCHANGED << args, parsed_command_defs, stored_last_command, selected_option,
                    parameter_definitions, is_rerun, filled_parameters, need_to_prompt,
                    pending, context, rounds, interpolated_command, effects, exit_code,
                    error, error_detail >>

TokensNext == GetOrderedContextVariables

TokensSpec == TokensInit /\ [][TokensNext]_vars

\* ------------------------------------------------- the GUI application

\* How many futures Task::perform is given, and how many ProgressTick
\* messages one execution sees.
MaxExecutions == 3
MaxTicks == 1

\* A future given to Task::perform that has not delivered its message yet:
\* execute_command or run_in_terminal.  id numbers the futures in the order
\* they were started, and cancelled marks the execution CancelCommand was
\* handled for; the program keeps neither.
Future(id, kind) == [id |-> id, kind |-> kind, cancelled |-> FALSE]

\* A Result<String, String> shown as output; of is the id of the future it
\* is the result of, 0 when it is the result of none.
Ok(string, of) == [ok |-> TRUE, string |-> string, of |-> of]
Err(string, of) == [ok |-> FALSE, string |-> string, of |-> of]

\* The inline execution the state RunningInline stands for: the one
\* started last.
CurrentExecution ==
    CHOOSE t \in tasks :
        /\ t.kind = "execute_command"
        /\ \A u \in tasks : u.kind = "execute_command" => u.id <= t.id

\* action_buttons: the messages the buttons of the view send when pressed.
action_buttons(execution_state) ==
    IF execution_state = "Idle" THEN { "RunCommand", "RunInTerminal" }
    ELSE IF execution_state = "RunningInline" THEN { "CancelCommand" }
    ELSE {}

\* RustCuts::default, with the command definitions of the config file.
GuiInit ==
    /\ pc = "update"
    /\ IdleSelector
    /\ args = DefaultArgs
    /\ NoExecuteLocals
    /\ rust_cuts \in { Default(n) : n \in 0 .. MaxCommands }
    /\ tasks = {}
    /\ started = 0

\* Message::CommandSelected(index), sent by the button of a listed command
CommandSelected(index) ==
    /\ pc = "update"
    /\ index < rust_cuts.command_definitions
    /\ rust_cuts' = [rust_cuts EXCEPT !.selected_command = << index >>,
                                      !.output = <<>>,
                                      !.streaming_output = <<>>,
                                      !.progress_counter = 0]
    /\ UNCHANGED << pc, selector, invocation, tasks, started >>

\* Message::RunCommand
RunCommand ==
    /\ pc = "update"
    /\ "RunCommand" \in action_buttons(rust_cuts.execution_state)
    /\ started < MaxExecutions
    /\ IF rust_cuts.execution_state # "Idle"
       THEN UNCHANGED gui
       ELSE IF /\ rust_cuts.selected_command # <<>>
               /\ rust_cuts.selected_command[1] < rust_cuts.command_definitions
       THEN /\ rust_cuts' = [rust_cuts EXCEPT !.execution_state = "RunningInline",
                                              !.output = <<>>,
                                              !.streaming_output = <<>>,
                                              !.progress_counter = 0]
            /\ tasks' = tasks \cup { Future(started + 1, "execute_command") }
            /\ started' = started + 1
       ELSE UNCHANGED gui
    /\ UNCHANGED << pc, selector, invocation >>

\* Message::RunInTerminal
RunInTerminal ==
    /\ pc = "update"
    /\ "RunInTerminal" \in action_buttons(rust_cuts.execution_state)
    /\ started < MaxExecutions
    /\ IF /\ rust_cuts.selected_command # <<>>
          /\ rust_cuts.selected_command[1] < rust_cuts.command_definitions
       THEN /\ rust_cuts' = [rust_cuts EXCEPT !.execution_state = "RunningInTerminal"]
            /\ tasks' = tasks \cup { Future(started + 1, "run_in_terminal") }
            /\ started' = started + 1
       ELSE UNCHANGED gui
    /\ UNCHANGED << pc, selector, invocation >>

\* Message::CancelCommand
CancelCommand ==
    /\ pc = "update"
    /\ "CancelCommand" \in action_buttons(rust_cuts.execution_state)
    /\ IF rust_cuts.execution_state = "RunningInline"
       THEN /\ rust_cuts' = [rust_cuts EXCEPT
                                !.execution_state = "Idle",
                                !.output = << Err("Command cancelled by user", 0) >>,
                                !.streaming_output = <<>>]
            /\ tasks' = (tasks \ { CurrentExecution })
                            \cup { [CurrentExecution EXCEPT !.cancelled = TRUE] }
       ELSE UNCHANGED << rust_cuts, tasks >>
    /\ UNCHANGED << pc, selector, invocation, started >>

\* Message::CommandExecuted(result): the future of an execute_command ends,
\* with the standard output of the command or with an error text.
CommandExecuted(future, ok) ==
    /\ pc = "update"
    /\ future \in tasks
    /\ future.kind = "execute_command"
    /\ tasks' = tasks \ { future }
    /\ rust_cuts' = [rust_cuts EXCEPT
                        !.execution_state = "Idle",
                        !.output = << IF ok THEN Ok("stdout", future.id)
                                      ELSE Err("stderr", future.id) >>]
    /\ UNCHANGED << pc, selector, invocation, started >>

\* Message::TerminalLaunched(result): the future of a run_in_terminal ends.
TerminalLaunched(future, ok) ==
    /\ pc = "update"
    /\ future \in tasks
    /\ future.kind = "run_in_terminal"
    /\ tasks' = tasks \ { future }
    /\ rust_cuts' = [rust_cuts EXCEPT
                        !.execution_state = "Idle",
                        !.output = IF ok THEN @
                                   ELSE << Err("Failed to launch terminal", future.id) >>]
    /\ UNCHANGED << pc, selector, invocation, started >>

\* Message::ProgressTick, sent by the subscription while an inline execution
\* is shown as running
ProgressTick ==
    /\ pc = "update"
    /\ rust_cuts.execution_state = "RunningInline"
    /\ rust_cuts.progress_counter < MaxTicks
    /\ rust_cuts' = [rust_cuts EXCEPT !.progress_counter = @ + 1]
    /\ UNCHANGED << pc, selector, invocation, tasks, started >>

GuiNext ==
    \/ \E index \in 0 .. MaxCommands - 1 : CommandSelected(index)
    \/ RunCommand
    \/ RunInTerminal
    \/ CancelCommand
    \/ \E future \in tasks, ok \in BOOLEAN : CommandExecuted(future, ok)
    \/ \E future \in tasks, ok \in BOOLEAN : TerminalLaunched(future, ok)
    \/ ProgressTick

GuiSpec == GuiInit /\ [][GuiNext]_vars

\* ----------------------------------------------------------------- claims

Polling == pc = "polling"

\* The locals after one loop iteration that starts in the current state and
\* reads the given event.
AfterKey(key, ctrl) ==
    Iteration(KeyArm(key, ctrl, Locals, last_command),
              command_definitions, last_command, overflow_checks)

AfterMouse(kind, row, modifiers) ==
    Iteration(MouseArm(kind, row, modifiers, Locals, last_command, overflow_checks),
              command_definitions, last_command, overflow_checks)

\* C1: at every event poll with a non-empty filtered list, the iteration that
\* reads Enter returns from the selector, with Index(i) for a normal entry at
\* the selected position and Rerun(last command) for the rerun entry.
C1_EnterCommitsSelected ==
    (Polling /\ indexes_to_display # <<>>)
        => LET after == AfterKey(KeyCode("Enter"), FALSE)
           IN  /\ after.status = "return"
               /\ after.ret = EnterChoice(indexes_to_display, selected_index, last_command)
               /\ after.ret # NoChoice

\* C2: at every event poll, the iteration that reads Ctrl-C returns Quit from
\* the selector, and so does the one that reads q while not filtering.
C2_QuitKeysEndSelector ==
    Polling
        => /\ LET after == AfterKey(KeyChar("c"), TRUE)
              IN  after.status = "return" /\ after.ret = ChoiceQuit
           /\ (~is_filtering)
                  => LET after == AfterKey(KeyChar("q"), FALSE)
                     IN  after.status = "return" /\ after.ret = ChoiceQuit

\* C3: once prompt_for_command_choice has been left after raw mode was
\* enabled (return, propagated error or panic), raw mode and mouse capture
\* are both disabled.
C3_TerminalRestoredOnExit ==
    (pc \in {"returned", "error", "panicked"} /\ guard # "none")
        => (~raw_mode /\ ~mouse_capture)

\* C3 witness: an error was propagated after the guard was created.
C3_Witness ==
    pc = "error" /\ guard = "dropped" /\ ~raw_mode /\ ~mouse_capture

\* C4: at every event poll the selected index is below the length of the
\* filtered list, or is 0 when the list is empty.
C4_SelectedIndexValid ==
    Polling
        => IF indexes_to_display = <<>> THEN selected_index = 0
           ELSE selected_index < Len(indexes_to_display)

\* C5: at every event poll with a non-empty filtered list (and a viewport of
\* at least one row) the selected row is inside the viewport:
\* offset <= selected index < offset + height.
C5_SelectedRowInViewport ==
    (Polling /\ indexes_to_display # <<>> /\ viewport.height > 0)
        => /\ viewport.offset <= selected_index
           /\ selected_index < viewport.offset + viewport.height

\* C6: at every event poll with a non-empty filtered list (and a viewport of
\* at least one row), Down at the last index moves the selection to 0 and
\* sets the offset to 0, and Up at index 0 moves the selection to the last
\* index with an offset that makes the last index visible.
C6_CyclicWraparound ==
    (Polling /\ indexes_to_display # <<>> /\ viewport.height > 0)
        => LET len == Len(indexes_to_display)
               down == AfterKey(KeyCode("Down"), FALSE)
               up == AfterMouse("ScrollUp", 0, FALSE)
           IN  /\ (selected_index = len - 1)
                      => /\ down.status = "ok"
                         /\ down.selected_index = 0
                         /\ down.viewport.offset = 0
               /\ (selected_index = 0)
                      => /\ up.status = "ok"
                         /\ up.selected_index = len - 1
                         /\ up.viewport.offset <= len - 1
                         /\ len - 1 < up.viewport.offset + up.viewport.height

\* Independent readings of the two filter rules, for the filter claims.

RECURSIVE Pow10(_)
Pow10(p) == IF p = 0 THEN 1 ELSE 10 * Pow10(p - 1)

\* Number of decimal digits of n.
NumDigits(n) == CHOOSE m \in 1 .. 10 : n < Pow10(m) /\ (m = 1 \/ n >= Pow10(m - 1))

\* The decimal digits of n occur, contiguous, in the decimal digits of v.
NumberHasDigitsOf(v, n) ==
    \E p \in 0 .. (NumDigits(v) - NumDigits(n)) :
        (v \div Pow10(p)) % Pow10(NumDigits(n)) = n

\* The characters of the pattern occur in the label, in order.
IsSubsequence(pattern, label) ==
    \E f \in [1 .. Len(pattern) -> 1 .. Len(label)] :
        /\ \A k \in 1 .. Len(pattern) : label[f[k]] = pattern[k]
        /\ \A j, k \in 1 .. Len(pattern) : j < k => f[j] < f[k]

\* The filter text is a decimal integer as str::parse reads it.
IsIntegerText(text) ==
    LET body == IF text # <<>> /\ text[1] = "+" THEN Tail(text) ELSE text
    IN  body # <<>> /\ \A k \in 1 .. Len(body) : body[k] \in { Digits[d] : d \in 1 .. 10 }

AllKeys == CommandDisplayKeys(command_definitions, last_command)

LabelMatches(text) ==
    { key \in AllKeys :
          IsSubsequence(text, CommandDisplayLabel(command_definitions, last_command, key)) }

\* C7 as claimed: for an integer filter text the filtered list is exactly the
\* entries whose stringified index contains the filter text; otherwise exactly
\* the entries whose label fuzzy-matches it.
C7_FilterByTextOrLabel ==
    (pc = "filter")
        => /\ Len(indexes_to_display) = Cardinality(SetOf(indexes_to_display))
           /\ SetOf(indexes_to_display) =
                  IF IsIntegerText(filter_text)
                  THEN { key \in AllKeys : Contains(CommandIndexToString(key), filter_text) }
                  ELSE LabelMatches(filter_text)

\* C7 amended: for a filter text that parses as the integer n the filtered
\* list is exactly the normal entries whose 1-based number contains the
\* decimal digits of n (the text "02" or "+2" selects like "2"); otherwise it
\* is exactly the entries whose label fuzzy-matches the text.
C7_FilterByNumberOrLabel ==
    (pc = "filter")
        => /\ Len(indexes_to_display) = Cardinality(SetOf(indexes_to_display))
           /\ SetOf(indexes_to_display) =
                  IF IsIntegerText(filter_text)
                  THEN { key \in AllKeys :
                             /\ key.t = "Normal"
                             /\ NumberHasDigitsOf(key.i + 1, ParseUsize(filter_text)[1]) }
                  ELSE LabelMatches(filter_text)

\* C7 witness: an integer text that is not the decimal rendering of its value
\* has selected entries.
C7_Witness ==
    /\ pc = "filter"
    /\ filter_text = << "0", "2" >>
    /\ Normal(1) \in SetOf(indexes_to_display)
    /\ Normal(11) \in SetOf(indexes_to_display)

\* The list is in display order: normal entries by ascending original index,
\* the rerun entry after every normal entry.
InDisplayOrder(list) ==
    \A j, k \in 1 .. Len(list) :
        j < k => /\ list[j].t = "Normal"
                 /\ (list[k].t = "Normal" => list[j].i < list[k].i)

\* C8: for every filter text the displayed list holds the normal entries in
\* ascending original index order with the rerun entry, when present, last;
\* the rerun entry is present only when there is a last command.
C8_DisplayOrder ==
    Polling
        => /\ InDisplayOrder(indexes_to_display)
           /\ (Rerun \in SetOf(indexes_to_display)) => last_command # <<>>
           /\ (filter_text = <<>>) => SetOf(indexes_to_display) = AllKeys

\* C8 witness: a non-empty filter keeps two normal entries and the rerun entry.
C8_Witness ==
    /\ Polling
    /\ filter_text # <<>>
    /\ Len(indexes_to_display) = 3
    /\ indexes_to_display[3] = Rerun

\* C9 as claimed: with the filter text "2" on 15 entries the filtered list
\* holds the entries whose stringified index contains "2" plus the entries
\* whose label fuzzy-matches "2", normal entries before the rerun entry.
C9_IndexPlusLabelMatches ==
    (pc = "filter" /\ Len(command_definitions) = 15 /\ filter_text = << "2" >>)
        => /\ SetOf(indexes_to_display) =
                  { key \in AllKeys : Contains(CommandIndexToString(key), << "2" >>) }
                  \cup LabelMatches(<< "2" >>)
           /\ InDisplayOrder(indexes_to_display)

\* C9 amended: with the filter text "2" on 15 entries the filtered list is
\* exactly the entries numbered 2 and 12, in that order; an entry whose label
\* fuzzy-matches "2" is not added, and the rerun entry is never in it.
C9_IndexMatchesOnly ==
    (pc = "filter" /\ Len(command_definitions) = 15 /\ filter_text = << "2" >>)
        => indexes_to_display = << Normal(1), Normal(11) >>

\* C9 witness: the filter "2" on 15 entries, one of which has a label that
\* fuzzy-matches "2" but a number without the digit 2, with such a rerun entry.
C9_Witness ==
    /\ pc = "filter"
    /\ Len(command_definitions) = 15
    /\ filter_text = << "2" >>
    /\ command_definitions[5] = MarkedLabel
    /\ last_command = << MarkedLabel >>
    /\ indexes_to_display = << Normal(1), Normal(11) >>

\* The row is a list row inside the viewport that shows an entry.
ListRow(row) ==
    /\ row >= 1
    /\ row <= viewport.height
    /\ row - 1 + viewport.offset < Len(indexes_to_display)

\* C10: at every event poll after a left press without modifiers on a list
\* row inside the viewport, the iteration that reads the release returns from
\* the selector with the choice Enter computes for the entry on that row.
C10_ClickCommitsLikeEnter ==
    (Polling /\ down_row # <<>> /\ ListRow(down_row[1]))
        => LET after == AfterMouse("UpLeft", 0, FALSE)
           IN  /\ after.status = "return"
               /\ after.ret = EnterChoice(indexes_to_display,
                                          down_row[1] - 1 + viewport.offset, last_command)
               /\ after.ret # NoChoice

\* Used to tell the failures of C6 and C10 from those of C4 and C5: where the
\* selected index is valid and inside the viewport, both hold.
WrapAndClickHoldWhereSelectionValid ==
    (C4_SelectedIndexValid /\ C5_SelectedRowInViewport)
        => (C6_CyclicWraparound /\ C10_ClickCommitsLikeEnter)

\* The iteration ended back at the event poll with the selection, the
\* viewport and the filter as they were.
Ignored(after) ==
    /\ after.status = "ok"
    /\ after.selected_index = selected_index
    /\ after.viewport = viewport
    /\ after.filter_text = filter_text
    /\ after.is_filtering = is_filtering

\* C11: at every event poll, the release of a left click pressed on the
\* header row or on a row that is not a visible list row, and every mouse
\* event with a modifier held, commits nothing and leaves the selected index,
\* the viewport, the filter text and the filtering flag unchanged.
C11_IgnoredClicksChangeNothing ==
    Polling =>
        /\ (down_row # <<>> /\ ~ListRow(down_row[1]))
               => Ignored(AfterMouse("UpLeft", 0, FALSE))
        /\ \A e \in MouseEvents :
               e.modifiers => Ignored(AfterMouse(e.kind, e.row, e.modifiers))

\* C12: at every event poll, the iteration that reads the rerun hotkey r
\* returns Rerun(last command) from a non-filtering state when a last command
\* exists, whatever entry is selected, and changes nothing when none exists;
\* while filtering it appends r to the filter text and commits nothing.
C12_RerunHotkey ==
    Polling =>
        LET after == AfterKey(KeyChar(LAST_COMMAND_OPTION), FALSE)
        IN  IF is_filtering
            THEN /\ after.status = "ok"
                 /\ after.is_filtering
                 /\ after.filter_text = Append(filter_text, LAST_COMMAND_OPTION)
            ELSE IF last_command # <<>>
            THEN /\ after.status = "return"
                 /\ after.ret = ChoiceRerun(last_command[1])
            ELSE Ignored(after)

\* The locals after one loop iteration that starts in the current state and
\* reads a resize to the given size.
AfterResize(cols, rows) ==
    Iteration(handle_resize(cols, rows, Locals, overflow_checks),
              command_definitions, last_command, overflow_checks)

\* C13: at every event poll, the iteration that reads a resize ends back at
\* the poll with the viewport height the new row count minus 2, the width the
\* new column count, the selected index unchanged and, where the new viewport
\* has rows, the selected row inside the viewport.
C13_ResizeKeepsSelectionVisible ==
    Polling =>
        \A cols \in TermCols, rows \in TermRows :
            LET after == AfterResize(cols, rows)
            IN  /\ after.status = "ok"
                /\ after.viewport.height = rows - 2
                /\ after.viewport.width = cols
                /\ after.selected_index = selected_index
                /\ (after.viewport.height > 0 /\ Len(after.indexes_to_display) > 0)
                     => /\ after.viewport.offset <= after.selected_index
                        /\ after.selected_index
                             < after.viewport.offset + after.viewport.height

\* Used to tell which failures of C13 are handle_resize's own: from a poll
\* where the selected entry exists and is inside a viewport that has rows,
\* handle_resize to a size that leaves the viewport rows does what C13 says.
ResizeHoldsWhereSelectionVisible ==
    (/\ Polling
     /\ selected_index < Len(indexes_to_display)
     /\ viewport.offset <= selected_index
     /\ selected_index < viewport.offset + viewport.height)
        => \A cols \in TermCols, rows \in TermRows :
               LET after == handle_resize(cols, rows, Locals, overflow_checks)
               IN  SaturatingSub(rows, 2) > 0
                     => /\ after.status = "ok"
                        /\ after.viewport.height = SaturatingSub(rows, 2)
                        /\ after.viewport.width = cols
                        /\ after.viewport.offset <= selected_index
                        /\ selected_index
                             < after.viewport.offset + after.viewport.height

\* C14: at every event poll the filter text is non-empty only while the
\* filtering flag is set.  In a Browsing state the filter text is empty, the
\* full list is shown, Backspace changes nothing, a printable character
\* leaves the text alone and '/' sets the flag without altering the text;
\* in a Filtering state Esc clears both the flag and the text.
C14_FilterTextOnlyWhileFiltering ==
    Polling =>
        IF is_filtering
        THEN LET after == AfterKey(KeyCode("Esc"), FALSE)
             IN  ~after.is_filtering /\ after.filter_text = <<>>
        ELSE /\ filter_text = <<>>
             /\ indexes_to_display
                  = filter_displayed_indexes(command_definitions, last_command, <<>>)
             /\ Ignored(AfterKey(KeyCode("Backspace"), FALSE))
             /\ \A c \in PlainChars :
                    LET after == AfterKey(KeyChar(c), FALSE)
                    IN  /\ after.filter_text = filter_text
                        /\ after.is_filtering = (c = "/")

\* A Filtering state with a non-empty filter text from which Esc leads back
\* to a Browsing poll with the text cleared.
C14_Witness ==
    /\ Polling
    /\ is_filtering
    /\ filter_text # <<>>
    /\ AfterKey(KeyCode("Esc"), FALSE).status = "ok"
    /\ ~AfterKey(KeyCode("Esc"), FALSE).is_filtering
    /\ AfterKey(KeyCode("Esc"), FALSE).filter_text = <<>>

\* The invocation has done something of the given kinds.
Did(kinds) == \E k \in 1 .. Len(effects) : effects[k].e \in kinds

\* The errors of the validation of the command line and the template.
ValidationErrors ==
    { "MixedParameterMode", "ParameterFormat", "MissingParameter",
      "ParameterCountMismatch", "Parse" }

\* C15: whenever a validation error is the error of the invocation, the
\* invocation has ended with a failure without a parameter prompt, a
\* confirmation prompt, a save or an execution before it, and takes no step
\* after it.
C15_ValidationErrorsBeforeAnyPrompt ==
    /\ [](error \in ValidationErrors
            => /\ pc = "exit"
               /\ exit_code = "FAILURE"
               /\ ~ Did({ "prompt", "confirm", "save", "execute" }))
    /\ [][error \notin ValidationErrors]_vars

\* An unknown named key is rejected after the selector was shown and a
\* command that has tokens was chosen.
C15_Witness ==
    /\ pc = "exit"
    /\ error = "MissingParameter"
    /\ Did({ "select" })
    /\ execution_context.tokens # <<>>

\* C16: an invocation with the rerun flag and an explicit command id or
\* index never reads the config file or the last-command file, and when it
\* has ended, it has ended with the RerunWithIndex error.
C16_RerunWithIndexBeforeFiles ==
    (args.rerun_last_command /\ args.command_id_or_index # <<>>)
        => /\ ~ Did({ "read_config", "read_last_command" })
           /\ pc = "exit" => (exit_code = "FAILURE" /\ error = "RerunWithIndex")

\* The tokens prompted for so far, in the order of the prompts.
PromptedTokens ==
    LET prompts == SelectSeq(effects, LAMBDA x : x.e = "prompt")
    IN  [k \in 1 .. Len(prompts) |-> prompts[k].token]

\* Every token of the command was prompted for once if the first prompt
\* check asked for prompting, and none was otherwise.
PromptedAsNeeded ==
    IF execution_context.tokens # <<>> /\ need_to_prompt
    THEN /\ Len(PromptedTokens) = Len(execution_context.tokens)
         /\ SetOf(PromptedTokens) = SetOf(execution_context.tokens)
    ELSE PromptedTokens = <<>>

\* C17: with the dry-run flag the invocation never asks for confirmation,
\* saves or executes, whatever force and skip-save are; once the rendered
\* command is printed the invocation has ended with SUCCESS, the print was
\* the last thing it did and the prompting that was needed came before it;
\* and it ends with SUCCESS in no other way.
C17_DryRunStopsAfterPrint ==
    args.dry_run =>
        /\ ~ Did({ "confirm", "save", "execute" })
        /\ Did({ "print" })
             => /\ pc = "exit"
                /\ exit_code = "SUCCESS"
                /\ effects[Len(effects)].e = "print"
                /\ PromptedAsNeeded
        /\ (pc = "exit" /\ exit_code = "SUCCESS") => Did({ "print" })

\* A dry run with force set and the save not skipped that prompted, printed
\* and ended with SUCCESS.
C17_Witness ==
    /\ args.dry_run
    /\ args.force
    /\ ~ args.skip_command_save
    /\ pc = "exit"
    /\ exit_code = "SUCCESS"
    /\ Did({ "prompt" })
    /\ Did({ "print" })

\* The position of the last print among the effects, 0 when there is none.
LastPrint ==
    LET prints == { k \in 1 .. Len(effects) : effects[k].e = "print" }
    IN  IF prints = {} THEN 0 ELSE CHOOSE k \in prints : \A j \in prints : j <= k

\* C18: with force and without dry-run the confirmation prompt is never
\* shown; once the rendered command is printed (after the prompting that was
\* needed) the loop is left with the resolved parameter map stored in the
\* execution template, only the save and the execution follow, what is saved
\* is that map and what is executed is the command printed, and the
\* invocation ends only after the execution or on a failed save.
C18_ForceSkipsConfirmation ==
    (args.force /\ ~ args.dry_run) =>
        /\ ~ Did({ "confirm" })
        /\ Did({ "print" })
             => /\ pc \in { "write_last_command", "execute", "exit" }
                /\ PromptedAsNeeded
                /\ execution_context.template_context = filled_parameters
                /\ \A k \in LastPrint + 1 .. Len(effects) :
                       \/ effects[k] = Effect("save", <<>>, filled_parameters)
                       \/ effects[k] = Effect("execute", <<>>, effects[LastPrint].value)
                /\ pc = "exit" => (error = "Io" \/ Did({ "execute" }))

\* A forced invocation that prompted, stored a non-empty parameter map, saved
\* it and executed.
C18_Witness ==
    /\ args.force
    /\ ~ args.dry_run
    /\ pc = "exit"
    /\ Did({ "prompt" })
    /\ Did({ "save" })
    /\ Did({ "execute" })
    /\ execution_context.template_context # <<>>

\* The confirmation prompt was answered with the given answer.
Answered(answer) == \E k \in 1 .. Len(effects) : effects[k] = Effect("confirm", <<>>, answer)

\* C19: once No is answered at the confirmation prompt the invocation has
\* ended with SUCCESS and without an error, that answer was the last thing
\* to happen, and nothing was saved or executed.
C19_NoEndsCleanly ==
    Answered("No") =>
        /\ pc = "exit"
        /\ exit_code = "SUCCESS"
        /\ error = "none"
        /\ effects[Len(effects)] = Effect("confirm", <<>>, "No")
        /\ ~ Did({ "save", "execute" })

\* No answered in an invocation that would have saved the command.
C19_Witness ==
    /\ Answered("No")
    /\ ~ args.skip_command_save
    /\ pc = "exit"
    /\ Did({ "prompt" })

\* The value a print shows for a token of the command.
PrintedValue(print, token) ==
    LET tokens == execution_context.tokens
    IN  print.value[CHOOSE m \in 1 .. Len(tokens) : tokens[m] = token]

\* C20: wherever ChangeParams was answered, the command has tokens and was
\* printed just before; prompting is forced from then on; and what follows,
\* as far as the invocation got, is one prompt per token, each offering the
\* value the previous round printed for that token, then a print of the
\* command rendered again, then the confirmation prompt again.  (It gets no
\* further only where the read of the terminal fails.)
C20_ChangeParamsPromptsAgain ==
    \A i \in 1 .. Len(effects) :
        effects[i] = Effect("confirm", <<>>, "ChangeParams") =>
            LET in_order == SelectSeq(TokenNames,
                                      LAMBDA t : t \in SetOf(execution_context.tokens))
                n == Len(in_order)
            IN  /\ n > 0
                /\ n = Len(execution_context.tokens)
                /\ effects[i - 1].e = "print"
                /\ need_to_prompt
                /\ Len(effects) = i
                     => (pc \in { "loop", "fill_parameter_values" } \/ error = "SubProcess")
                /\ \A k \in 1 .. n :
                       Len(effects) >= i + k
                           => effects[i + k]
                                = Effect("prompt", in_order[k],
                                         << PrintedValue(effects[i - 1], in_order[k]) >>)
                /\ Len(effects) >= i + n + 1 => effects[i + n + 1].e = "print"
                /\ Len(effects) >= i + n + 2 => effects[i + n + 2].e = "confirm"

\* ChangeParams answered on a rerun, which had not prompted, and the
\* confirmation reached again.
C20_Witness ==
    /\ is_rerun
    /\ Len(effects) > 1
    /\ effects[Len(effects)].e = "confirm"
    /\ \E i \in 1 .. Len(effects) - 1 :
           /\ effects[i] = Effect("confirm", <<>>, "ChangeParams")
           /\ ~ \E k \in 1 .. i : effects[k].e = "prompt"

\* The positions of the saves among the effects.
Saves == { k \in 1 .. Len(effects) : effects[k].e = "save" }

\* C21: the last-command file is written at most once; a write comes without
\* skip-save and dry-run, right after the answer Yes or, with force, right
\* after the last print, never after the answer No; what is written is the
\* resolved parameter map of the last round, the one that renders to the
\* command printed last; and only the execution follows it.
C21_SavedOnceWithFinalMap ==
    /\ Cardinality(Saves) <= 1
    /\ \A k \in Saves :
           /\ ~ args.skip_command_save
           /\ ~ args.dry_run
           /\ ~ Answered("No")
           /\ k > 1
           /\ \/ effects[k - 1] = Effect("confirm", <<>>, "Yes")
              \/ (args.force /\ k - 1 = LastPrint)
           /\ effects[k].value = filled_parameters
           /\ interpolate_command(TemplateContext(effects[k].value),
                                  execution_context.command)
                = [err |-> "none", command |-> effects[LastPrint].value]
           /\ \A j \in k + 1 .. Len(effects) : effects[j].e = "execute"
           /\ pc \in { "execute", "exit" }

\* A save after ChangeParams was answered and the round after it rendered
\* another command than the round before.
C21_Witness ==
    /\ Saves # {}
    /\ pc = "exit"
    /\ Did({ "execute" })
    /\ \E i \in 1 .. Len(effects) :
           /\ effects[i] = Effect("confirm", <<>>, "ChangeParams")
           /\ effects[i - 1].value # effects[LastPrint].value

\* The step that merges the command-line values is about to be taken for a
\* template that parses.
Merging == pc = "process_parameters_and_confirm" /\ ~ execution_context.malformed

\* The keys of the well-formed entries of a Named argument list that are not
\* tokens of the command.
UnknownKeys(named_params, tokens) ==
    { Split(named_params[k])[1] : k \in { j \in 1 .. Len(named_params) :
          /\ Len(Split(named_params[j])) = 2
          /\ Split(named_params[j])[1] \notin SetOf(tokens) } }

\* C22: for every command, with or without tokens, the merge of a Named
\* argument list that has an entry whose key is not a token of the command
\* ends the invocation with the MissingParameter error carrying that key.
C22_UnknownNamedKeyIsAnError ==
    [][(Merging /\ args.positional_arguments = <<>>)
          => \A key \in UnknownKeys(args.parameters, execution_context.tokens) :
                 /\ pc' = "exit"
                 /\ error' = "MissingParameter"
                 /\ error_detail' = << key >>]_vars

\* The same for the commands that have a token, where it holds.
UnknownNamedKeyIsAnErrorWithTokens ==
    [][(Merging /\ args.positional_arguments = <<>> /\ execution_context.tokens # <<>>)
          => \A key \in UnknownKeys(args.parameters, execution_context.tokens) :
                 /\ pc' = "exit"
                 /\ error' = "MissingParameter"
                 /\ error_detail' = << key >>]_vars

\* C23: for every command, with or without tokens, the merge of a Positional
\* argument list whose length is not the number of tokens of the command ends
\* the invocation with the ParameterCountMismatch error carrying the number
\* of tokens and the number of values.
C23_PositionalCountMismatch ==
    [][(/\ Merging
        /\ args.parameters = <<>>
        /\ args.positional_arguments # <<>>
        /\ Len(args.positional_arguments) # Len(execution_context.tokens))
          => /\ pc' = "exit"
             /\ error' = "ParameterCountMismatch"
             /\ error_detail' = << Len(execution_context.tokens),
                                   Len(args.positional_arguments) >>]_vars

\* The same for the commands that have a token, where it holds.
PositionalCountMismatchWithTokens ==
    [][(/\ Merging
        /\ args.parameters = <<>>
        /\ args.positional_arguments # <<>>
        /\ execution_context.tokens # <<>>
        /\ Len(args.positional_arguments) # Len(execution_context.tokens))
          => /\ pc' = "exit"
             /\ error' = "ParameterCountMismatch"
             /\ error_detail' = << Len(execution_context.tokens),
                                   Len(args.positional_arguments) >>]_vars

\* The merge step of process_parameters_and_confirm was taken.
Merged == pc # "process_parameters_and_confirm"

\* Where a key first appears among the items of the templates.
FirstAppearance(templates, key) ==
    LET items == Concat(templates)
    IN  CHOOSE i \in 1 .. Len(items) :
            /\ items[i] = Key(key)
            /\ \A j \in 1 .. i - 1 : items[j] # Key(key)

\* The values of a Positional list, by the key each one is meant for: the
\* i-th value for the key that is the i-th to appear.
ByAppearance(templates, values) ==
    LET keys == { item.s : item \in { x \in SetOf(Concat(templates)) : x.kind = "Key" } }
        before(key) == { k \in keys : FirstAppearance(templates, k)
                                          < FirstAppearance(templates, key) }
    IN  [key \in keys |-> values[Cardinality(before(key)) + 1]]

\* `ssh -p {port} {user}@{host}` rendered with 2222, admin and 10.0.0.5
SshRendered ==
    << << "s", "s", "h" >>, << "-", "p" >>, << "2", "2", "2", "2" >>,
       << "a", "d", "m", "i", "n", "@", "1", "0", ".", "0", ".", "0", ".", "5" >> >>

\* C24: after the merge of a Positional list that has as many values as the
\* command has tokens, every token has the value at the position of its
\* first appearance in the templates as its resolved value, whatever the base
\* map declared or held for it; no error is raised; and the command printed
\* is the templates rendered with these values, which for
\* `ssh -p {port} {user}@{host}` and 2222, admin, 10.0.0.5 is
\* ssh, -p, 2222, admin@10.0.0.5.
C24_PositionalByFirstAppearance ==
    LET templates == execution_context.command
        tokens == execution_context.tokens
        values == args.positional_arguments
        meant == ByAppearance(templates, values)
    IN  (/\ Merged
         /\ args.parameters = <<>>
         /\ values # <<>>
         /\ Len(values) = Len(tokens))
            => /\ error = "none"
               /\ filled_parameters # <<>>
               /\ DOMAIN filled_parameters[1] = DOMAIN meant
               /\ \A key \in DOMAIN meant :
                      filled_parameters[1][key].default = << meant[key] >>
               /\ pc = "exit"
                    => /\ effects = << Effect("print", <<>>, interpolated_command) >>
                       /\ \A i \in 1 .. Len(templates) :
                              interpolated_command[i] = render(templates[i], meant)
                       /\ Len(values) = 3 /\ Len(values[1]) = 4
                            => interpolated_command = SshRendered

\* The ssh command printed for 2222, admin and 10.0.0.5, where the base map
\* declares the defaults 22 for port and ubuntu for user.
C24_Witness ==
    /\ pc = "exit"
    /\ interpolated_command = SshRendered
    /\ parameter_definitions # <<>>
    /\ DOMAIN parameter_definitions[1] = { Port, User }
    /\ parameter_definitions[1][Port].default = << << "2", "2" >> >>
    /\ parameter_definitions[1][User].default = << << "u", "b", "u", "n", "t", "u" >> >>
    /\ filled_parameters[1][Port].default = << << "2", "2", "2", "2" >> >>

\* What the command line supplies, by key: the value of the last Named entry
\* for a key, or the values of a Positional list by the tokens they go to.
Supplied ==
    LET named == args.parameters
        keys == { Split(named[k])[1] : k \in 1 .. Len(named) }
        last(key) == CHOOSE k \in 1 .. Len(named) :
                         /\ Split(named[k])[1] = key
                         /\ \A j \in k + 1 .. Len(named) : Split(named[j])[1] # key
    IN  IF named # <<>> THEN [key \in keys |-> Split(named[last(key)])[2]]
        ELSE IF args.positional_arguments # <<>>
        THEN ByAppearance(execution_context.command, args.positional_arguments)
        ELSE <<>>

\* C25: after a merge that raised no error, for a command that has tokens,
\* the merged map has an entry for every key of the base map; the entry of a
\* key the command line does not supply is the entry of the base map; the
\* entry of a supplied key has the id and the description of the base entry
\* and the supplied value as its default; and without command-line values
\* the merged map is the base map.
C25_MergeKeepsBaseEntries ==
    (/\ Merged
     /\ error \notin ValidationErrors
     /\ execution_context.tokens # <<>>)
        => /\ parameter_definitions # <<>>
             => /\ filled_parameters # <<>>
                /\ \A key \in DOMAIN parameter_definitions[1] :
                       LET base == parameter_definitions[1][key]
                           merged == filled_parameters[1][key]
                       IN  /\ key \in DOMAIN filled_parameters[1]
                           /\ key \notin DOMAIN Supplied => merged = base
                           /\ key \in DOMAIN Supplied
                                => /\ merged.id = base.id
                                   /\ merged.description = base.description
                                   /\ merged.default = << Supplied[key] >>
           /\ (args.parameters = <<>> /\ args.positional_arguments = <<>>)
                => filled_parameters = parameter_definitions

\* A Named value for a merged into a base map that declares a with a
\* description and a default, and b without a default.
C25_Witness ==
    /\ Merged
    /\ error = "none"
    /\ args.parameters = << << "a", "=", "1" >> >>
    /\ parameter_definitions # <<>>
    /\ DOMAIN parameter_definitions[1] = { << "a" >>, << "b" >> }
    /\ parameter_definitions[1][<< "a" >>].default # <<>>
    /\ filled_parameters[1][<< "a" >>]
         = ParameterDefinition(<< "a" >>, << "about" >>, << << "1" >> >>)
    /\ filled_parameters[1][<< "b" >>] = ParameterDefinition(<< "b" >>, << "about" >>, <<>>)

\* C26: the merge of a Named argument list that has an entry which does not
\* split into exactly two parts on '=' ends the invocation with the
\* ParameterFormat error carrying that entry, and leaves no parameter map.
C26_MalformedNamedEntry ==
    [][(Merging /\ args.positional_arguments = <<>>)
          => \A k \in 1 .. Len(args.parameters) :
                 Len(Split(args.parameters[k])) # 2
                     => /\ pc' = "exit"
                        /\ error' = "ParameterFormat"
                        /\ error_detail' = << args.parameters[k] >>
                        /\ filled_parameters' = <<>>]_vars

\* The same for the commands that have a token and the first entry of the
\* list that is malformed or has an unknown key, where it holds.
MalformedNamedEntryWithTokens ==
    [][(Merging /\ args.positional_arguments = <<>> /\ execution_context.tokens # <<>>)
          => \A k \in 1 .. Len(args.parameters) :
                 (/\ Len(Split(args.parameters[k])) # 2
                  /\ \A j \in 1 .. k - 1 :
                         /\ Len(Split(args.parameters[j])) = 2
                         /\ Split(args.parameters[j])[1] \in SetOf(execution_context.tokens))
                     => /\ pc' = "exit"
                        /\ error' = "ParameterFormat"
                        /\ error_detail' = << args.parameters[k] >>
                        /\ filled_parameters' = <<>>]_vars

\* The first prompt check was made for a command with tokens, on a run that
\* is not a rerun, with values on the command line.
CheckedWithValues ==
    /\ Merged
    /\ error \notin ValidationErrors
    /\ execution_context.tokens # <<>>
    /\ ~ is_rerun
    /\ (args.parameters # <<>> \/ args.positional_arguments # <<>>)

\* C27: for a command with tokens, a run that is not a rerun and style Named
\* or Positional, the prompt check says yes exactly when there is no merged
\* map or some token has no resolved value in it: no entry, or an entry
\* without a default.
C27_PromptIffValueMissing ==
    CheckedWithValues
        => (need_to_prompt
              <=> \/ filled_parameters = <<>>
                  \/ \E t \in SetOf(execution_context.tokens) :
                         \/ t \notin DOMAIN filled_parameters[1]
                         \/ filled_parameters[1][t].default = <<>>)

\* What holds instead: the check says yes exactly when there is no merged
\* map or some token has no entry in it.
PromptIffEntryMissing ==
    CheckedWithValues
        => (need_to_prompt
              <=> \/ filled_parameters = <<>>
                  \/ \E t \in SetOf(execution_context.tokens) :
                         t \notin DOMAIN filled_parameters[1])

\* C28: the prompt check says no for every command without tokens, whatever
\* the base map, the rerun flag and the command-line values; for a command
\* with tokens it says no on every rerun; and on a run that is not a rerun
\* and has no command-line values it says yes, also when every token has a
\* declared default.
C28_PromptCheckCases ==
    (Merged /\ error \notin ValidationErrors)
        => /\ execution_context.tokens = <<>> => ~ need_to_prompt
           /\ (execution_context.tokens # <<>> /\ is_rerun) => ~ need_to_prompt
           /\ (/\ execution_context.tokens # <<>>
               /\ ~ is_rerun
               /\ args.parameters = <<>>
               /\ args.positional_arguments = <<>>) => need_to_prompt

\* Prompting begun on a run without command-line values for a command every
\* token of which has a declared default.
C28_Witness ==
    /\ pc = "fill_parameter_values"
    /\ need_to_prompt
    /\ ~ is_rerun
    /\ args.parameters = <<>>
    /\ args.positional_arguments = <<>>
    /\ Len(execution_context.tokens) > 1
    /\ parameter_definitions # <<>>
    /\ \A t \in SetOf(execution_context.tokens) :
           /\ t \in DOMAIN parameter_definitions[1]
           /\ parameter_definitions[1][t].default # <<>>

\* One list is the beginning of another.
IsPrefix(s, t) == Len(s) <= Len(t) /\ s = SubSeq(t, 1, Len(s))

\* C29: the tokens fill_parameter_values has prompted for are tokens of the
\* command, in strictly ascending lexicographic order (so none twice), and
\* every token not prompted for yet comes after them; when it has returned,
\* every token was prompted for.  For `{b} {a} {b}` the order is a, b and
\* for `ssh -p {port} {user}@{host}` it is host, port, user.
C29_PromptsInSortedOrder ==
    LET tokens == SetOf(execution_context.tokens)
        prompted == PromptedTokens
    IN  /\ SetOf(prompted) \subseteq tokens
        /\ \A i, j \in 1 .. Len(prompted) : i < j => Precedes(prompted[i], prompted[j])
        /\ prompted # <<>>
             => \A t \in tokens \ SetOf(prompted) : Precedes(prompted[Len(prompted)], t)
        /\ (prompted # <<>> /\ pc # "fill_parameter_values" /\ error # "SubProcess")
             => SetOf(prompted) = tokens
        /\ execution_context.tokens = << << "b" >>, << "a" >> >>
             => IsPrefix(prompted, << << "a" >>, << "b" >> >>)
        /\ execution_context.tokens = << Port, User, Host >>
             => IsPrefix(prompted, << Host, Port, User >>)

\* The ssh command printed after the prompts for host, port and user.
C29_Witness ==
    /\ pc = "exit"
    /\ execution_context.tokens = << Port, User, Host >>
    /\ PromptedTokens = << Host, Port, User >>
    /\ Did({ "print" })

\* The default to be offered for a token: the value of the existing context
\* if it has one, else the declared default, else none.
Offered(key) ==
    IF /\ filled_parameters # <<>>
       /\ key \in DOMAIN filled_parameters[1]
       /\ filled_parameters[1][key].default # <<>>
    THEN filled_parameters[1][key].default
    ELSE IF parameter_definitions # <<>> /\ key \in DOMAIN parameter_definitions[1]
    THEN parameter_definitions[1][key].default
    ELSE <<>>

\* What a pass of prompt_value would return for a line, for the token whose
\* turn it is.
Returned(line) ==
    LET key == Head(pending)
        previous_context_param == Lookup(filled_parameters, key)
    IN  prompt_value(line,
                     IF previous_context_param # <<>> THEN previous_context_param
                     ELSE Lookup(parameter_definitions, key),
                     previous_default(key, parameter_definitions, filled_parameters))

\* C30: while a token is prompted for, an empty or blank line returns the
\* default offered for it, and returns nothing (the question is asked again)
\* when there is none; the line x and the line x with blanks around it
\* return x.  Every step that ends a prompt logs the default offered and
\* stores for the token a non-empty value that is that default or a line
\* typed, trimmed; a step that returns nothing changes nothing.
C30_PromptReturnsInputOrDefault ==
    /\ [](pc = "fill_parameter_values"
            => /\ Returned(<<>>) = Offered(Head(pending))
               /\ Returned(<< " " >>) = Offered(Head(pending))
               /\ Returned(<< "x" >>) = << << "x" >> >>
               /\ Returned(<< " ", "x", " " >>) = << << "x" >> >>)
    /\ [][(pc = "fill_parameter_values" /\ pc' # "exit")
            => LET key == Head(pending)
                   stored == context'[key].default
               IN  /\ effects' = Append(effects, Effect("prompt", key, Offered(key)))
                   /\ pending' = Tail(pending)
                   /\ key \in DOMAIN context'
                   /\ stored # <<>>
                   /\ stored[1] # <<>>
                   /\ stored = Offered(key) \/ stored = << << "x" >> >>]_vars

\* A token without any default was prompted for and has the value typed, and
\* a token whose declared default differs from its value in the existing
\* context was offered the latter.
C30_Witness ==
    /\ pc = "exit"
    /\ error = "none"
    /\ Did({ "print" })
    /\ \E k \in 1 .. Len(effects) :
           /\ effects[k].e = "prompt"
           /\ effects[k].value = <<>>
           /\ filled_parameters[1][effects[k].token].default = << << "x" >> >>
    /\ \E k \in 1 .. Len(effects) :
           /\ effects[k].e = "prompt"
           /\ effects[k].value = << << "p" >> \o effects[k].token >>
           /\ parameter_definitions # <<>>
           /\ effects[k].token \in DOMAIN parameter_definitions[1]
           /\ parameter_definitions[1][effects[k].token].default
                = << DeclaredDefault(effects[k].token) >>


\* The variables of the command line were extracted.
Extracted == pc = "variables"

\* C31: the variables extracted from a list of parsed templates are the keys
\* of its items, each of them once, and a key that first appears before
\* another one, scanning the templates in list order and each template from
\* left to right, comes before it in the result: the place of a key is that
\* of its first appearance, whatever repeats follow.
C31_TokensByFirstAppearance ==
    LET templates == execution_context.command
        tokens == execution_context.tokens
        keys == { item.s : item \in { x \in SetOf(Concat(templates)) : x.kind = "Key" } }
    IN  Extracted
            => /\ SetOf(tokens) = keys
               /\ Len(tokens) = Cardinality(keys)
               /\ \A i, j \in 1 .. Len(tokens) :
                      i < j => FirstAppearance(templates, tokens[i])
                                   < FirstAppearance(templates, tokens[j])

\* The variables of `{a}{b}` `{b}{a}` were extracted: each key is repeated,
\* and the repeats come in the other order.
C31_Witness ==
    /\ Extracted
    /\ execution_context.command =
           << << Key(<< "a" >>), Key(<< "b" >>) >>, << Key(<< "b" >>), Key(<< "a" >>) >> >>
    /\ execution_context.tokens = << << "a" >>, << "b" >> >>


\* C32: determine fails, with MixedParameterMode, exactly when both of its
\* lists are non-empty; else it returns Named with the named list when only
\* that one is non-empty, Positional with the positional list when only that
\* one is non-empty, and None when both are empty, the lists as they were
\* given.  The invocation that called it has ended with MixedParameterMode
\* exactly when both lists of its command line are non-empty.
C32_DetermineStyle ==
    LET named == args.parameters
        positional == args.positional_arguments
        style == determine(named, positional)
    IN  /\ (style.err # "none") <=> (named # <<>> /\ positional # <<>>)
        /\ style.err # "none" => style.err = "MixedParameterMode"
        /\ (named # <<>> /\ positional = <<>>)
               => (style.kind = "Named" /\ style.values = named)
        /\ (named = <<>> /\ positional # <<>>)
               => (style.kind = "Positional" /\ style.values = positional)
        /\ (named = <<>> /\ positional = <<>>) => style.kind = "None"
        /\ Merged => ((error = "MixedParameterMode")
                          <=> (named # <<>> /\ positional # <<>>))

\* The merge step has ended an invocation that has an argument of each
\* style with MixedParameterMode.
C32_Witness ==
    /\ Merged
    /\ args.parameters # <<>>
    /\ args.positional_arguments # <<>>
    /\ error = "MixedParameterMode"
    /\ pc = "exit"


\* The selector returns the original index of a listed command when it
\* returns an index (an invariant of Spec).
SelectorReturnsListedIndex ==
    (pc = "returned" /\ result.kind = "Index") => result.i < Len(command_definitions)

\* The command line names a number that is no index of the commands read.
ExplicitOutOfRange ==
    LET explicit == args.command_id_or_index
    IN  /\ explicit # <<>>
        /\ ParseUsize(explicit[1]) # <<>>
        /\ ParseUsize(explicit[1])[1] >= Len(parsed_command_defs)

\* C33: an Index choice, made by the selector or named on the command line,
\* is below the number of commands read whenever there is one, the command
\* lookup of setup_execution_context included; and an invocation that names
\* a number outside this range gets no further than the choice of command:
\* it shows no selector, prompts for nothing, prints, saves and executes
\* nothing, and it ends with an error and the exit code FAILURE, which is
\* Error::Misc when the files were read and the rerun flag is not set.
C33_IndexChoicesAreInRange ==
    /\ selected_option.kind = "Index" => selected_option.i < Len(parsed_command_defs)
    /\ ExplicitOutOfRange
           => /\ pc \in { "execute_command", "get_last_command",
                          "determine_command_choice", "exit" }
              /\ selected_option = NoChoice
              /\ ~ Did({ "select", "prompt", "confirm", "print", "save", "execute" })
              /\ pc = "exit" => (error # "none" /\ exit_code = "FAILURE")
              /\ (/\ pc = "exit"
                  /\ Did({ "read_last_command" })
                  /\ error # "Yaml"
                  /\ ~ args.rerun_last_command) => error = "Misc"

\* An invocation that names the number of commands read as the index has
\* ended with Error::Misc.
C33_Witness ==
    /\ pc = "exit"
    /\ args.command_id_or_index = << << "1" >> >>
    /\ Len(parsed_command_defs) = 1
    /\ error = "Misc"
    /\ exit_code = "FAILURE"
    /\ selected_option = NoChoice


\* C34: at every event poll outside filtering, the iteration that reads
\* Escape returns Quit from the selector, and handle_key_event returns Quit
\* for it as it does for q.
C34_EscapeQuitsWhenBrowsing ==
    (Polling /\ ~is_filtering)
        => /\ handle_key_event(KeyCode("Esc"), FALSE, Locals, last_command).ret
                  = handle_key_event(KeyChar("q"), FALSE, Locals, last_command).ret
           /\ LET after == AfterKey(KeyCode("Esc"), FALSE)
              IN  after.status = "return" /\ after.ret = ChoiceQuit

\* What the code does with it: outside filtering handle_key_event returns no
\* choice for Escape, and the iteration that reads it changes nothing.
EscapeIgnoredWhenBrowsing ==
    (Polling /\ ~is_filtering)
        => /\ handle_key_event(KeyCode("Esc"), FALSE, Locals, last_command).ret = NoChoice
           /\ Ignored(AfterKey(KeyCode("Esc"), FALSE))


\* The positions of the effects of the given kind.
Effects(kind) == { k \in 1 .. Len(effects) : effects[k].e = kind }

\* The parameter map holds a value for every token of the command.
Resolved(parameters) ==
    \A token \in SetOf(execution_context.tokens) :
        /\ parameters # <<>>
        /\ token \in DOMAIN parameters[1]
        /\ parameters[1][token].default # <<>>

\* C35: once the loop of process_parameters_and_confirm is left for the save
\* and the execution, the template context of the execution template holds a
\* value for every token of the command, and the command kept for the shell
\* is the templates rendered with these values; what a save writes and what
\* an execution is given are this map and this command.
C35_NothingUnresolvedRuns ==
    LET rendered ==
            [i \in 1 .. Len(execution_context.command) |->
                render(execution_context.command[i],
                       TemplateContext(execution_context.template_context))]
    IN  /\ (pc \in { "write_last_command", "execute" } \/ Effects("execute") # {})
               => /\ Resolved(execution_context.template_context)
                  /\ interpolated_command = rendered
        /\ \A k \in Effects("save") :
               /\ Resolved(effects[k].value)
               /\ effects[k].value = execution_context.template_context
        /\ \A k \in Effects("execute") : effects[k].value = rendered

\* `{b} {a}` was executed and saved, with a value for b that was typed at
\* the prompt.
C35_Witness ==
    /\ Effects("execute") # {}
    /\ Effects("save") # {}
    /\ Len(execution_context.tokens) = 2
    /\ \E k \in Effects("prompt") : effects[k].token = << "b" >>
    /\ execution_context.template_context[1][<< "b" >>].default = << << "x" >> >>


\* C36: without skip-save the shell is spawned only right after the
\* last-command file was written, with the execution template of this
\* invocation; an invocation whose write failed has spawned nothing and ends
\* with the write's error; and when the spawn fails or the shell exits
\* without success, the invocation ends with that error, the write stays the
\* last thing done to the file, and nothing follows the execution.
C36_SavedBeforeSpawn ==
    /\ \A k \in Effects("execute") :
           /\ ~ args.skip_command_save
                  => /\ k > 1
                     /\ effects[k - 1] =
                            Effect("save", <<>>, execution_context.template_context)
           /\ k = Len(effects)
           /\ pc = "exit"
    /\ (pc = "execute" /\ ~ args.skip_command_save)
           => effects[Len(effects)].e = "save"
    /\ (pc = "exit" /\ error = "Io") => Effects("execute") = {}
    /\ (pc = "exit" /\ error = "SubProcessExit") => Effects("execute") # {}

\* The shell exited without success after the last command was written.
C36_Witness ==
    /\ pc = "exit"
    /\ error = "SubProcessExit"
    /\ ~ args.skip_command_save
    /\ Len(effects) > 1
    /\ effects[Len(effects)].e = "execute"
    /\ effects[Len(effects) - 1].e = "save"
    /\ effects[Len(effects) - 1].value # <<>>

\* The write of the last-command file failed after the command was
\* confirmed: the invocation has ended without an execution.
WriteFailedBeforeSpawn ==
    /\ pc = "exit"
    /\ error = "Io"
    /\ Answered("Yes")
    /\ Effects("save") = {}
    /\ Effects("execute") = {}


\* move_selected_index does not evaluate `viewport.height as usize - 1` of
\* its Up wrap with height 0 when the poll reads Up or ScrollUp.
UpWrapStaysAboveZero ==
    Polling => ~ (/\ indexes_to_display # <<>>
                  /\ selected_index = 0
                  /\ viewport.height = 0)

\* handle_resize does not evaluate `new_height as usize - 1` of its shrink
\* branch with new height 0, whatever size the poll reads.
ShrinkStaysAboveZero ==
    Polling =>
        \A rows \in TermRows :
            LET new_height == SaturatingSub(rows, 2)
            IN  ~ (/\ ~ (new_height > viewport.height /\ viewport.offset > 0)
                   /\ new_height < viewport.height
                   /\ selected_index >= viewport.offset + new_height
                   /\ new_height = 0)

\* The release arm does not evaluate `down_row - 1` with row 0.
ClickRowStaysAboveZero ==
    (Polling /\ down_row # <<>>) => down_row[1] >= 1

\* handle_index_change does not evaluate `selected_index - viewport.offset`
\* or `new_index - viewport.offset` with the offset above the index, for the
\* direction the poll reads.
RowPositionsStayAboveZero ==
    Polling =>
        \A direction \in { "Up", "Down" } :
            LET len == Len(indexes_to_display)
                m == move_selected_index(selected_index, viewport, len, << direction >>,
                                         overflow_checks)
            IN  (/\ ~ m.panic
                 /\ ~ m.changed
                 /\ ~ print_header_panics(is_filtering, m.index, len, m.viewport.width))
                    => /\ selected_index >= m.viewport.offset
                       /\ m.index >= m.viewport.offset

\* C37: at every event poll, whatever event is read, none of the
\* subtractions of the index, row and viewport arithmetic goes below zero:
\* not `height - 1` of the Up wrap, not `new_height - 1` of the shrink branch
\* of the resize, not `down_row - 1` of the click, and not the row positions
\* `index - offset`.
C37_NoSubtractionBelowZero ==
    /\ UpWrapStaysAboveZero
    /\ ShrinkStaysAboveZero
    /\ ClickRowStaysAboveZero
    /\ RowPositionsStayAboveZero


\* The command was chosen by a number given on the command line.
ChosenByNumber ==
    /\ selected_option.kind = "Index"
    /\ args.command_id_or_index # <<>>
    /\ ParseUsize(args.command_id_or_index[1]) # <<>>

\* The number given on the command line.
NumberGiven == ParseUsize(args.command_id_or_index[1])[1]

\* The integer filter of the selector keeps the row of the chosen command
\* for the given number.
FilterKeepsChosen(number) ==
    FilterKeeps([k \in 1 .. Len(parsed_command_defs) |-> CommandLabel(k)], <<>>,
                Normal(selected_option.i), UsizeToString(number))

\* C38 as claimed: the command chosen by a number given on the command line
\* is the command whose row label in the selector shows that number, the
\* number the integer filter keeps it for.
C38_RowNumberIsCommandLineIndex ==
    ChosenByNumber
        => /\ CommandIndexToString(Normal(selected_option.i)) = UsizeToString(NumberGiven)
           /\ FilterKeepsChosen(NumberGiven)

\* C38 amended: the command chosen by the number n given on the command
\* line is the command at the 0-based position n, whose row label in the
\* selector shows n + 1, the number the integer filter keeps it for; the
\* number its label shows is not the number that was given.
C38_RowNumberIsOneAboveIndex ==
    ChosenByNumber
        => /\ selected_option.i = NumberGiven
           /\ CommandIndexToString(Normal(selected_option.i))
                  = UsizeToString(NumberGiven + 1)
           /\ CommandIndexToString(Normal(selected_option.i)) # UsizeToString(NumberGiven)
           /\ FilterKeepsChosen(NumberGiven + 1)

\* The number 1 was given with two commands read: the command chosen is the
\* second one, whose row shows 2.
C38_Witness ==
    /\ ChosenByNumber
    /\ NumberGiven = 1
    /\ Len(parsed_command_defs) = 2
    /\ selected_option = ChoiceIndex(1)
    /\ CommandIndexToString(Normal(selected_option.i)) = << "2" >>
    /\ pc = "exit"


\* The inline executions that are still running.
InlineExecutions == { t \in tasks : t.kind = "execute_command" }

\* C39: at most one inline execution is outstanding at any time.
C39_OneInlineExecution == Cardinality(InlineExecutions) <= 1

\* What the guard of RunCommand does give: while the state is RunningInline
\* an inline execution is outstanding, and no execution is started in a state
\* other than Idle.
OneInlineExecutionShown ==
    /\ rust_cuts.execution_state = "RunningInline" => InlineExecutions # {}
    /\ [][started' # started => rust_cuts.execution_state = "Idle"]_vars

\* C40: the message of an inline execution that CancelCommand was handled
\* for changes neither the output nor the execution state when it arrives.
C40_CancelledResultIsDropped ==
    [][\A t \in tasks :
           (t.cancelled /\ t \notin tasks')
               => /\ rust_cuts'.output = rust_cuts.output
                  /\ rust_cuts'.execution_state = rust_cuts.execution_state]_vars

====
